---- MODULE Spec2Model ----
(***************************************************************************)
(* BiliStalkerMCP: the retry decorator (retry.py), the request metrics     *)
(* (observability.py), the cursor codec and the dynamic pagination engine  *)
(* (services/dynamic_service.py) and the subtitle aggregator               *)
(* (services/user_service.py), as state machines.                          *)
(*                                                                         *)
(* Time is counted in tenths of a second, so that base_delay = 2.0 is 20.  *)
(* A text is a sequence of tokens; a token is one character of a caller's  *)
(* input or one fixed fragment of a message.                               *)
(***************************************************************************)
EXTENDS Integers, Sequences, FiniteSets, TLC

VARIABLES
    \* ---- with_retry.wrapper (retry.py) ----
    wcfg,            \* the decorator's arguments
    wpc,             \* "idle", "loop" (top of the for body), "body" (func runs), "done"
    attempt,         \* the for loop's variable
    sleeps,          \* the delays handed to asyncio.sleep, in order
    calls,           \* how many times func was invoked
    outcomes,        \* every exception func raised, in order
    last_exception,  \* wrapper's last_exception
    wresult,         \* what the wrapper gave its caller
    \* ---- observability.py ----
    metrics,         \* the context variables request_id and retry_count
    \* ---- fetch_user_dynamics (services/dynamic_service.py) ----
    feed,            \* the upstream: page i is what get_dynamics(offset = i - 1) returns
    req,             \* the arguments of the call in progress
    dpc,             \* "idle" or "scan" (inside the while loop)
    loc,             \* the function's local variables
    fetched,         \* the offsets handed to get_dynamics in this attempt, in order
    \* ---- the caller that follows next_cursor ----
    cpc,             \* "ready", "waiting", "finished" (has_more false) or "failed"
    collected,       \* the dynamic_ids of all responses so far, in order
    exits,           \* the exits of the page loop taken by the responses so far
    resp,            \* the last response
    \* ---- the cursor codec on its own ----
    cin,             \* encode's and decode's arguments
    ctoken,          \* the token encode returned
    cresult,         \* what decode returned or raised
    \* ---- the subtitle aggregator ----
    sin,             \* the arguments of _collect_subtitles
    spc,             \* where the call is: off, start, meta, text, done
    ptask,           \* the page tasks: waiting, running, done
    pres,            \* what each page task returned
    cands,           \* candidates, once the page tasks are gathered
    serrors,         \* errors, once the page tasks are gathered
    ttask,           \* the text tasks: none, waiting, running, done
    tres,            \* what each text task returned
    kept,            \* the indexes of the candidates whose text is fetched
    sreason,         \* the fallback reason of the selection
    sout,            \* the response
    mcalls,          \* per page, the get_subtitle calls issued
    tcalls,          \* per candidate, the _fetch_subtitle_text calls issued
    pdone,           \* the page tasks in the order they completed
    tdone,           \* the text tasks in the order they completed
    \* ---- parse_dynamic_item on its own ----
    pin,             \* the raw record
    pout,            \* what the call returned or raised
    \* ---- infra/http_client.py ----
    http_client,     \* the module global _http_client: None or a client
    is_closed,       \* per client created so far, its is_closed
    hist,            \* the calls made so far, with what each returned
    closing,         \* the clients of the close calls that are awaiting aclose
    \* ---- fetch_article_content (services/user_service.py) ----
    ain,             \* what get_info returns when it returns
    apc,             \* where the call is: off, start, info, fetch, markdown, done
    acalls,          \* the upstream methods called in this attempt and how each ended
    aout,            \* the payload returned
    \* ---- the alru_cache wrappers (services/user_service.py) ----
    cache,           \* per cached function and key: 0, or the task whose future is cached
    cinfo,           \* per cached function: the hits and misses of cache_info()
    ctasks,          \* the tasks the caches have created, in order
    reqs             \* the requests: where each is and what it saw and recorded

retryVars == <<wcfg, wpc, attempt, sleeps, calls, outcomes, last_exception, wresult>>
dynVars == <<feed, req, dpc, loc, fetched, cpc, collected, exits, resp>>
codecVars == <<cin, ctoken, cresult>>
subVars == <<sin, spc, ptask, pres, cands, serrors, ttask, tres, kept, sreason, sout,
             mcalls, tcalls, pdone, tdone>>
parseVars == <<pin, pout>>
httpVars == <<http_client, is_closed, hist, closing>>
artVars == <<ain, apc, acalls, aout>>
cacheVars == <<cache, cinfo, ctasks, reqs>>
vars == <<retryVars, metrics, dynVars, codecVars, subVars, parseVars, httpVars, artVars,
          cacheVars>>

-----------------------------------------------------------------------------
(* Bounds of the model *)

MaxRetriesBound == 3
MaxHead == 1
MaxLimit == 3
MaxSkip == 2
MaxTextLen == 2
MaxChars == 4
MaxTasks == 5
MaxCards == 3
MaxOps == 7
MaxLangTracks == 3
MaxRequests == 2

-----------------------------------------------------------------------------
(* Texts and exceptions *)

\* '412' in error_str: the three characters in a row.
Contains412(msg) ==
    \E i \in 1..(Len(msg) - 2) :
        msg[i] = "4" /\ msg[i + 1] = "1" /\ msg[i + 2] = "2"

NoException == [cls |-> "none", code |-> 0, msg |-> <<>>]

ApiException(code) == [cls |-> "ApiException", code |-> code, msg |-> <<"api error">>]

RequestError == [cls |-> "RequestError", code |-> 0, msg |-> <<"network down">>]

ValueError(msg) == [cls |-> "ValueError", code |-> 0, msg |-> msg]

\* What an arbitrary wrapped function may raise: the two retryable API codes,
\* another API code, a transport error, and two plain exceptions, one of
\* which carries the text 412.
FuncExceptions ==
    { ApiException(0 - 412), ApiException(0 - 509), ApiException(0 - 404),
      RequestError,
      ValueError(<<"bad input">>),
      [cls |-> "Exception", code |-> 0, msg |-> <<"HTTP status ", "4", "1", "2">>] }

-----------------------------------------------------------------------------
(* retry.py *)

DEFAULT_RETRYABLE_CODES == {0 - 412, 0 - 509}

\* with_retry(max_retries, base_delay, max_delay, ..., return_default): no
\* call site passes retryable_codes, retryable_exceptions or on_retry.
RetryConfig(max_retries, base_delay, return_default) ==
    [ max_retries     |-> max_retries,
      base_delay      |-> base_delay,
      max_delay       |-> 300,
      retryable_codes |-> DEFAULT_RETRYABLE_CODES,
      on_retry        |-> "None",
      return_default  |-> return_default ]

\* random.uniform(0.5, 1.5) and random.uniform(0.3, 0.8): the ends of the range
JitterTenths == {5, 15}
FirstSleepTenths == {3, 8}

Min(a, b) == IF a < b THEN a ELSE b

\* A variant that grows by one step instead of doubling.
Pow2M(n) == n + 1
\* 2 ** n
Pow2(n) == 2 ^ n

\* The delays the wrapper may sleep at the top of iteration `att`.
SleepDelays(cfg, att) ==
    IF att > 0
    THEN { Min(cfg.base_delay * Pow2(att - 1) + j, cfg.max_delay) : j \in JitterTenths }
    ELSE FirstSleepTenths

\* A variant of the loop bound with one more attempt.
InRangeM(cfg, att) == att < cfg.max_retries + 2
\* for attempt in range(max_retries + 1)
InRange(cfg, att) == att < cfg.max_retries + 1

\* The three except clauses, in order: does the wrapper treat exc as one it
\* may retry?
CaughtRetryable(cfg, exc) ==
    CASE exc.cls = "ApiException" -> exc.code \in cfg.retryable_codes
      [] exc.cls = "RequestError" -> TRUE
      [] OTHER -> Contains412(exc.msg)

\* observability.add_retry
add_retry(m) == [m EXCEPT !.retry_count = @ + 1]

\* if on_retry: on_retry(attempt + 1, e)
OnRetry(cfg, m) == IF cfg.on_retry = "None" THEN m ELSE add_retry(m)

ExhaustedM(cfg, last) == [kind |-> "raise", exc |-> last]
\* After the loop: return_default, else raise last_exception, else RuntimeError.
Exhausted(cfg, last) ==
    IF cfg.return_default
    THEN [kind |-> "default", exc |-> NoException]
    ELSE IF last # NoException
         THEN [kind |-> "raise", exc |-> last]
         ELSE [kind |-> "raise",
               exc  |-> [cls |-> "RuntimeError", code |-> 0, msg |-> <<"Unexpected state">>]]

NoResult == [kind |-> "none", exc |-> NoException]

\* The wrapper's state after func raised exc in iteration `attempt`: the
\* except clause, then either `continue`, `raise`, or the fall out of the last
\* iteration into the code after the loop.
WrapperCatches(exc) ==
    /\ outcomes' = Append(outcomes, exc)
    /\ IF CaughtRetryable(wcfg, exc)
       THEN /\ last_exception' = exc
            /\ IF attempt < wcfg.max_retries
               THEN /\ metrics' = OnRetry(wcfg, metrics)
                    /\ attempt' = attempt + 1
                    /\ wpc' = "loop"
                    /\ wresult' = wresult
               ELSE /\ metrics' = metrics
                    /\ attempt' = attempt + 1
                    /\ IF InRange(wcfg, attempt + 1)
                       THEN /\ wpc' = "loop"
                            /\ wresult' = wresult
                       ELSE /\ wpc' = "done"
                            /\ wresult' = Exhausted(wcfg, exc)
       ELSE /\ last_exception' = IF exc.cls = "ApiException" THEN exc ELSE last_exception
            /\ metrics' = metrics
            /\ attempt' = attempt
            /\ wpc' = "done"
            /\ wresult' = [kind |-> "raise", exc |-> exc]

\* observability.begin_request
BeginRequest ==
    /\ wpc = "idle"
    /\ metrics.request_id = "None"
    /\ metrics' = [request_id |-> "req", retry_count |-> 0]
    /\ UNCHANGED <<retryVars, dynVars, codecVars, subVars, parseVars, httpVars, artVars, cacheVars>>

\* The wrapper is called: last_exception = None and the loop starts.
WrapperCall ==
    /\ wpc = "idle"
    /\ wpc' = IF InRange(wcfg, 0) THEN "loop" ELSE "done"
    /\ wresult' = IF InRange(wcfg, 0) THEN NoResult ELSE Exhausted(wcfg, NoException)
    /\ attempt' = 0
    /\ last_exception' = NoException
    /\ UNCHANGED <<wcfg, sleeps, calls, outcomes, metrics, dynVars, codecVars, subVars, parseVars, httpVars, artVars, cacheVars>>

\* The top of the try block: asyncio.sleep before func is awaited.
WrapperSleep ==
    /\ wpc = "loop"
    /\ \E d \in SleepDelays(wcfg, attempt) : sleeps' = Append(sleeps, d)
    /\ wpc' = "body"
    /\ UNCHANGED <<wcfg, attempt, calls, outcomes, last_exception, wresult, metrics>>
    /\ UNCHANGED <<dynVars, codecVars, subVars, parseVars, httpVars, artVars, cacheVars>>

\* return await func(*args, **kwargs): func returns a value.
FuncReturns ==
    /\ wpc = "body"
    /\ calls' = calls + 1
    /\ wpc' = "done"
    /\ wresult' = [kind |-> "value", exc |-> NoException]
    /\ UNCHANGED <<wcfg, attempt, sleeps, outcomes, last_exception, metrics>>
    /\ UNCHANGED <<dynVars, codecVars, subVars, parseVars, httpVars, artVars, cacheVars>>

\* func raises.
FuncRaises ==
    /\ wpc = "body"
    /\ calls' = calls + 1
    /\ \E exc \in FuncExceptions : WrapperCatches(exc)
    /\ UNCHANGED <<wcfg, sleeps, dynVars, codecVars, subVars, parseVars, httpVars, artVars, cacheVars>>

-----------------------------------------------------------------------------
(* config.py and the constants of services/dynamic_service.py *)

CURSOR_VERSION == 1
FIRST_PAGE_CURSOR == 0
MAX_SCAN_PAGES == 20

\* Python's None where an offset or a cursor value is expected.
None == 0 - 1

\* A variant for which every offset is true.
TruthyM(x) == TRUE
\* bool(x) of an offset: None and 0 are false.
Truthy(x) == x # None /\ x # 0

VALID_TYPES == {"ALL", "ALL_RAW", "VIDEO", "ARTICLE", "DRAW", "TEXT"}

\* The characters of the valid names.
TypeChars ==
    [ ALL     |-> <<"A", "L", "L">>,
      ALL_RAW |-> <<"A", "L", "L", "_", "R", "A", "W">>,
      VIDEO   |-> <<"V", "I", "D", "E", "O">>,
      ARTICLE |-> <<"A", "R", "T", "I", "C", "L", "E">>,
      DRAW    |-> <<"D", "R", "A", "W">>,
      TEXT    |-> <<"T", "E", "X", "T">> ]

\* str.upper on the letters the inputs use
UpperMap ==
    ("a" :> "A") @@ ("d" :> "D") @@ ("e" :> "E") @@ ("i" :> "I") @@ ("l" :> "L")
    @@ ("o" :> "O") @@ ("r" :> "R") @@ ("t" :> "T") @@ ("v" :> "V") @@ ("w" :> "W")
    @@ ("x" :> "X")

Upper(s) == [i \in 1..Len(s) |-> IF s[i] \in DOMAIN UpperMap THEN UpperMap[s[i]] ELSE s[i]]

\* str.strip
RECURSIVE Strip(_)
Strip(s) ==
    IF s = <<>> THEN s
    ELSE IF Head(s) = " " THEN Strip(Tail(s))
    ELSE IF s[Len(s)] = " " THEN Strip(SubSeq(s, 1, Len(s) - 1))
    ELSE s

-----------------------------------------------------------------------------
(* services/dynamic_service.py *)

Raise(exc) == [ok |-> FALSE, exc |-> exc]

normalize_dynamic_type(dynamic_type) ==
    LET normalized == Upper(Strip(dynamic_type))
    IN  IF \E t \in VALID_TYPES : TypeChars[t] = normalized
        THEN [ok |-> TRUE, value |-> CHOOSE t \in VALID_TYPES : TypeChars[t] = normalized]
        ELSE Raise(ValueError(<<"Invalid dynamic_type '">> \o dynamic_type
                              \o <<"'. Allowed values: ALL, ALL_RAW, VIDEO, ARTICLE, DRAW, TEXT.">>))

\* A variant whose ALL takes videos too.
is_dynamic_type_matchM(item_type_id, dynamic_type) ==
    CASE dynamic_type = "ALL"     -> item_type_id \in {1, 2, 4, 8}
      [] dynamic_type = "ALL_RAW" -> TRUE
      [] dynamic_type = "VIDEO"   -> item_type_id = 8
      [] dynamic_type = "ARTICLE" -> item_type_id = 64
      [] dynamic_type = "DRAW"    -> item_type_id = 2
      [] dynamic_type = "TEXT"    -> item_type_id = 4
      [] OTHER -> FALSE
is_dynamic_type_match(item_type_id, dynamic_type) ==
    CASE dynamic_type = "ALL"     -> item_type_id \in {1, 2, 4}
      [] dynamic_type = "ALL_RAW" -> TRUE
      [] dynamic_type = "VIDEO"   -> item_type_id = 8
      [] dynamic_type = "ARTICLE" -> item_type_id = 64
      [] dynamic_type = "DRAW"    -> item_type_id = 2
      [] dynamic_type = "TEXT"    -> item_type_id = 4
      [] OTHER -> FALSE

\* A cursor argument: None, the empty string, a text that is not base64 of
\* JSON ("junk"), or the base64 of a JSON object with the fields v, u, t, a, s.
NoCursor == [kind |-> "none", v |-> 0, u |-> 0, t |-> "", a |-> None, s |-> 0, st |-> "int"]
JunkCursor == [kind |-> "junk", v |-> 0, u |-> 0, t |-> "", a |-> None, s |-> 0, st |-> "int"]

\* A token is the text the client holds, seen as what it decodes to: kind is
\* "none" (no cursor), "empty" (the empty string), "junk" (not base64 of
\* JSON), "nondict" (JSON, but no object) or "json" (an object with the
\* fields v, u, t, a and s); st is the kind of JSON value s holds ("int",
\* "bool", "float" or "str") and s its value as a number.
SkipTypes == {"int", "bool", "float", "str"}

\* isinstance(skip_matches, int): bool is a subclass of int.
IsInstanceInt(st) == st \in {"int", "bool"}

\* `if cursor`
HasCursor(cursor) == cursor.kind \notin {"none", "empty"}

\* A variant that leaves the skip count out of the payload.
encode_cursor_tokenM(api_cursor, skip_matches, user_id, dynamic_type) ==
    [ kind |-> "json",
      v    |-> CURSOR_VERSION,
      u    |-> user_id,
      t    |-> dynamic_type,
      a    |-> api_cursor,
      s    |-> 0,
      st   |-> "int" ]
\* json.dumps of the payload, then base64 without padding
encode_cursor_token(api_cursor, skip_matches, user_id, dynamic_type) ==
    [ kind |-> "json",
      v    |-> CURSOR_VERSION,
      u    |-> user_id,
      t    |-> dynamic_type,
      a    |-> api_cursor,
      s    |-> skip_matches,
      st   |-> "int" ]

\* A variant that compares the filter before the user.
decode_cursor_tokenM(cursor, user_id, dynamic_type) ==
    IF ~HasCursor(cursor) THEN Raise(ValueError(<<"cursor cannot be empty">>))
    ELSE IF cursor.kind = "junk" THEN Raise(ValueError(<<"Invalid cursor format">>))
    ELSE IF cursor.kind # "json" THEN Raise(ValueError(<<"Invalid cursor payload">>))
    ELSE IF cursor.v # CURSOR_VERSION THEN Raise(ValueError(<<"Unsupported cursor version">>))
    ELSE IF cursor.t # dynamic_type THEN Raise(ValueError(<<"Cursor does not match dynamic_type">>))
    ELSE IF cursor.u # user_id THEN Raise(ValueError(<<"Cursor does not belong to this user">>))
    ELSE IF ~IsInstanceInt(cursor.st) \/ cursor.s < 0
         THEN Raise(ValueError(<<"Invalid cursor skip value">>))
    ELSE [ ok           |-> TRUE,
           api_cursor   |-> IF cursor.a = None THEN FIRST_PAGE_CURSOR ELSE cursor.a,
           skip_matches |-> cursor.s ]
\* The checks of decode_cursor_token, in the order of the code.
decode_cursor_token(cursor, user_id, dynamic_type) ==
    IF ~HasCursor(cursor) THEN Raise(ValueError(<<"cursor cannot be empty">>))
    ELSE IF cursor.kind = "junk" THEN Raise(ValueError(<<"Invalid cursor format">>))
    ELSE IF cursor.kind # "json" THEN Raise(ValueError(<<"Invalid cursor payload">>))
    ELSE IF cursor.v # CURSOR_VERSION THEN Raise(ValueError(<<"Unsupported cursor version">>))
    ELSE IF cursor.u # user_id THEN Raise(ValueError(<<"Cursor does not belong to this user">>))
    ELSE IF cursor.t # dynamic_type THEN Raise(ValueError(<<"Cursor does not match dynamic_type">>))
    ELSE IF ~IsInstanceInt(cursor.st) \/ cursor.s < 0
         THEN Raise(ValueError(<<"Invalid cursor skip value">>))
    ELSE [ ok           |-> TRUE,
           api_cursor   |-> IF cursor.a = None THEN FIRST_PAGE_CURSOR ELSE cursor.a,
           skip_matches |-> cursor.s ]

\* parsers/dynamic_parser.parse_dynamic_item, as far as the id and the type go
OverflowError ==
    [cls |-> "OverflowError", code |-> 0, msg |-> <<"cannot convert float infinity to integer">>]
TimestampOverflow ==
    [cls |-> "OverflowError", code |-> 0, msg |-> <<"timestamp out of range for platform time_t">>]
ValidationError ==
    [cls |-> "ValidationError", code |-> 0, msg |-> <<"Input should be a valid string">>]

Return(value) == [ok |-> TRUE, value |-> value]

\* A raw card, as far as the parser looks at it: id is desc.dynamic_id_str,
\* type is desc.type, pictures is card.item.pictures (whether it is a list,
\* and for each entry whether it is a mapping), and three fields by the
\* kind of JSON value they hold:
\*   timestamp (desc.timestamp): "None", "in_range", "year_out_of_range" (a
\*     number datetime rejects with ValueError or OSError, 10**12 or 10**18),
\*     "beyond_time_t" (a number it rejects with OverflowError, 1e20), "inf"
\*     (a float that is infinite, the JSON number 1e999);
\*   article_id (card.id): "None", "int" or "inf";
\*   content (the field text_content is read from): "None", "str" or "number".
TimestampValues == {"None", "in_range", "year_out_of_range", "beyond_time_t", "inf"}
ArticleIdValues == {"None", "int", "inf"}
ContentValues == {"None", "str", "number"}

Pictures(entries) == [is_list |-> TRUE, entries |-> entries]
NoPictures == [is_list |-> FALSE, entries |-> <<>>]

\* A variant that counts every entry.
_extract_image_countM(raw_pictures) ==
    IF ~raw_pictures.is_list THEN 0 ELSE Len(raw_pictures.entries)
\* _extract_image_count: the entries of the list that are mappings
_extract_image_count(raw_pictures) ==
    IF ~raw_pictures.is_list THEN 0
    ELSE Len(SelectSeq(raw_pictures.entries, LAMBDA picture : picture = "dict"))

\* The card of a feed that is as the upstream documents it.
PlainCard(id, type) ==
    [ id |-> id, type |-> type, pictures |-> Pictures(<<"dict">>), timestamp |-> "in_range",
      article_id |-> "int", content |-> "str" ]

\* _coerce_int of a number: int(value) of an infinite float raises.
_coerce_int(value) == IF value = "inf" THEN Raise(OverflowError) ELSE Return(value)

\* format_timestamp: `except (ValueError, OSError): return None`
format_timestamp(ts) ==
    CASE ts = "None"              -> Return("None")
      [] ts = "in_range"          -> Return("formatted")
      [] ts = "year_out_of_range" -> Return("None")
      [] ts = "beyond_time_t"     -> Raise(TimestampOverflow)

KnownTypeCodes == {1, 2, 4, 8, 64, 2048, 512}

\* f"UNKNOWN_{item_type_id}", for the codes the inputs use
UnknownTypeName(item_type_id) ==
    CASE item_type_id = None -> "UNKNOWN_None"
      [] item_type_id = 3    -> "UNKNOWN_3"
      [] item_type_id = 16   -> "UNKNOWN_16"
      [] OTHER               -> "UNKNOWN_other"

TypeName(card) ==
    CASE card.type = 1    -> "REPOST"
      [] card.type = 2    -> IF _extract_image_count(card.pictures) > 0 THEN "DRAW" ELSE "TEXT"
      [] card.type = 4    -> "TEXT"
      [] card.type = 8    -> "VIDEO"
      [] card.type = 64   -> "ARTICLE"
      [] card.type = 2048 -> "CHARGE_QA"
      [] card.type = 512  -> "ACTIVITY"
      [] OTHER            -> UnknownTypeName(card.type)

\* The kind of value text_content gets in the branch of the card's type: the
\* branches of CHARGE_QA and of an unknown type build a string, the others
\* hand over the field as it is.
TextContent(card) ==
    IF card.type \in {1, 2, 4, 8, 64, 512} THEN card.content ELSE "str"

\* parsed["image_count"]: only the branch of code 2 sets it.
ImageCount(card) == IF card.type = 2 THEN _extract_image_count(card.pictures) ELSE 0

\* Does the body of the try block raise? Only the ARTICLE branch calls
\* something that can: _coerce_int(card.get("id")).
TryBlockRaises(card) == card.type = 64 /\ ~_coerce_int(card.article_id).ok

\* parse_dynamic_item(item): the statements before the try block, then the try
\* block with its except clause.
parse_dynamic_item(card) ==
    LET timestamp == _coerce_int(card.timestamp)
    IN  IF ~timestamp.ok THEN Raise(timestamp.exc)
        ELSE
        LET publish_time == format_timestamp(timestamp.value)
        IN  IF ~publish_time.ok THEN Raise(publish_time.exc)
            ELSE
            LET parsed == [ dynamic_id   |-> card.id,
                            publish_time |-> publish_time.value,
                            type         |-> "None",
                            text_content |-> "None",
                            image_count  |-> 0 ]
            IN  IF TryBlockRaises(card)
                THEN Return([parsed EXCEPT !.type = "PARSE_ERROR", !.text_content = "str"])
                ELSE Return([parsed EXCEPT !.type = TypeName(card),
                                           !.text_content = TextContent(card),
                                           !.image_count = ImageCount(card)])

\* DynamicItemResponse(**parsed): text_content is declared `str | None`, and
\* the model does not turn a number into a string.
DynamicItemResponse(parsed) ==
    IF parsed.text_content \in {"None", "str"} THEN Return(parsed) ELSE Raise(ValidationError)

\* processed_dynamics.append(DynamicItemResponse(**parse_dynamic_item(card)))
ProcessCard(card) ==
    LET parsed == parse_dynamic_item(card)
    IN  IF parsed.ok THEN DynamicItemResponse(parsed.value) ELSE parsed

\* u.get_dynamics(offset): the page at that offset; an offset the upstream
\* does not know gives a page without cards.
EmptyPage == [cards |-> <<>>, has_more |-> FALSE, next_offset |-> None]

get_dynamics(offset) ==
    IF offset \in 0..(Len(feed) - 1) THEN feed[offset + 1] ELSE EmptyPage

\* A variant that takes offset 0 for a legacy offset.
CursorWithOffsetM(cursor, offset) == HasCursor(cursor) /\ offset # None
\* `cursor and offset not in (None, FIRST_PAGE_CURSOR)`
CursorWithOffset(cursor, offset) ==
    HasCursor(cursor) /\ offset \notin {None, FIRST_PAGE_CURSOR}

\* A variant that goes on with the list an earlier attempt left behind.
EmptyAccumulatorM(left_behind) == left_behind
\* `processed_dynamics: list[DynamicItemResponse] = []`: a new list for every
\* invocation, whatever an earlier one left behind.
EmptyAccumulator(left_behind) == <<>>

\* The code before the while loop: the validation and the first values of the
\* locals, or the ValueError raised.
DynEnter(r) ==
    IF r.limit <= 0 THEN Raise(ValueError(<<"limit must be > 0">>))
    ELSE
    LET nt == normalize_dynamic_type(r.dynamic_type) IN
    IF ~nt.ok THEN nt
    ELSE IF CursorWithOffset(r.cursor, r.offset)
    THEN Raise(ValueError(<<"cursor and offset cannot be combined">>))
    ELSE
    LET start ==
            IF HasCursor(r.cursor)
            THEN decode_cursor_token(r.cursor, r.user_id, nt.value)
            ELSE [ ok           |-> TRUE,
                   api_cursor   |-> IF r.offset # None THEN r.offset ELSE FIRST_PAGE_CURSOR,
                   skip_matches |-> 0 ]
    IN  IF ~start.ok THEN start
        ELSE [ ok  |-> TRUE,
               loc |-> [ dynamic_type   |-> nt.value,
                         current_cursor |-> start.api_cursor,
                         in_page_skip   |-> start.skip_matches,
                         processed      |-> EmptyAccumulator(loc.processed),
                         next_cursor    |-> NoCursor,
                         has_more       |-> FALSE,
                         scanned_pages  |-> 0,
                         seen_offsets   |-> {} ] ]

\* A variant that never sees a remaining match.
AnyMatchAfterM(cards, index, dynamic_type) == FALSE
\* Is there a matching card after position index?
AnyMatchAfter(cards, index, dynamic_type) ==
    \E j \in (index + 1)..Len(cards) : is_dynamic_type_match(cards[j].type, dynamic_type)

\* A variant that skips one match too few.
SkippedM(matched, in_page_skip) == matched < in_page_skip
\* Does the card counted as match number `matched` still belong to the
\* matches an earlier call returned?
Skipped(matched, in_page_skip) == matched <= in_page_skip

\* A variant that stops one item late.
LimitReachedM(count, limit) == count > limit
\* `if len(processed_dynamics) >= limit`
LimitReached(count, limit) == count >= limit

\* The for loop over the cards of one page, from position index on.
RECURSIVE ScanCards(_, _, _, _, _, _, _)
ScanCards(cards, index, dynamic_type, in_page_skip, limit, matched, processed) ==
    IF index > Len(cards)
    THEN [ processed |-> processed, matched_count_in_page |-> matched,
           page_limit_reached |-> FALSE, remaining_match_in_page |-> FALSE,
           exc |-> NoException ]
    ELSE IF ~is_dynamic_type_match(cards[index].type, dynamic_type)
    THEN ScanCards(cards, index + 1, dynamic_type, in_page_skip, limit, matched, processed)
    ELSE IF Skipped(matched + 1, in_page_skip)
    THEN ScanCards(cards, index + 1, dynamic_type, in_page_skip, limit, matched + 1, processed)
    ELSE LET item == ProcessCard(cards[index])
         IN  IF ~item.ok
             THEN [ processed |-> processed, matched_count_in_page |-> matched + 1,
                    page_limit_reached |-> FALSE, remaining_match_in_page |-> FALSE,
                    exc |-> item.exc ]
             ELSE
             LET appended == Append(processed, item.value)
             IN  IF LimitReached(Len(appended), limit)
                 THEN [ processed |-> appended, matched_count_in_page |-> matched + 1,
                        page_limit_reached |-> TRUE,
                        remaining_match_in_page |-> AnyMatchAfter(cards, index, dynamic_type),
                        exc |-> NoException ]
                 ELSE ScanCards(cards, index + 1, dynamic_type, in_page_skip, limit,
                                matched + 1, appended)

\* A variant that leaves has_more set.
BreakM(l, processed, next_cursor, has_more, exit) ==
    [ done |-> TRUE, exit |-> exit, fetch |-> exit \notin {"max_pages", "repeat"},
      loc  |-> [l EXCEPT !.processed = processed,
                         !.next_cursor = next_cursor,
                         !.has_more = TRUE] ]
\* The end of the loop: the locals as they are, with the cursor to return.
Break(l, processed, next_cursor, has_more, exit) ==
    [ done |-> TRUE, exit |-> exit, fetch |-> exit \notin {"max_pages", "repeat"},
      loc  |-> [l EXCEPT !.processed = processed,
                         !.next_cursor = next_cursor,
                         !.has_more = has_more] ]

\* A variant that carries the skip of the call over to the next page.
SkipOnNextPageM(in_page_skip) == in_page_skip
\* `in_page_skip = 0` before `continue`
SkipOnNextPage(in_page_skip) == 0

\* A variant that lets one more page through.
TooManyPagesM(scanned_pages) == scanned_pages > MAX_SCAN_PAGES + 1
\* if scanned_pages > MAX_SCAN_PAGES
TooManyPages(scanned_pages) == scanned_pages > MAX_SCAN_PAGES

\* One pass through the body of the while loop, for the request r and the
\* locals l.
LoopBody(r, l) ==
    LET scanned == l.scanned_pages + 1
        l1 == [l EXCEPT !.scanned_pages = scanned]
    IN
    IF TooManyPages(scanned) THEN Break(l1, l.processed, NoCursor, FALSE, "max_pages")
    ELSE IF l.current_cursor \in l.seen_offsets THEN Break(l1, l.processed, NoCursor, FALSE, "repeat")
    ELSE
    LET l2 == [l1 EXCEPT !.seen_offsets = @ \cup {l.current_cursor}]
        raw == get_dynamics(l.current_cursor)
        cards == raw.cards
        page_next_offset == raw.next_offset
        page_has_more == raw.has_more /\ Truthy(page_next_offset)
    IN
    IF cards = <<>>
    THEN Break(l2, l.processed, NoCursor, FALSE,
               IF page_has_more THEN "empty_more" ELSE "empty_end")
    ELSE
    LET scan == ScanCards(cards, 1, l.dynamic_type, l.in_page_skip, r.limit, 0, l.processed)
    IN
    IF scan.exc # NoException
    THEN [ done |-> TRUE, exit |-> "raise", fetch |-> TRUE, loc |-> l2, exc |-> scan.exc ]
    ELSE
    IF scan.page_limit_reached
    THEN IF scan.remaining_match_in_page
         THEN Break(l2, scan.processed,
                    encode_cursor_token(l.current_cursor, scan.matched_count_in_page,
                                        r.user_id, l.dynamic_type),
                    TRUE, "limit_same_page")
         ELSE IF page_has_more
         THEN Break(l2, scan.processed,
                    encode_cursor_token(page_next_offset, 0, r.user_id, l.dynamic_type),
                    TRUE, "limit_next_page")
         ELSE Break(l2, scan.processed, NoCursor, FALSE, "limit_end")
    ELSE IF page_has_more
    THEN IF page_next_offset = l.current_cursor
         THEN Break(l2, scan.processed, NoCursor, FALSE, "non_advancing")
         ELSE [ done |-> FALSE, exit |-> "continue", fetch |-> TRUE,
                loc  |-> [l2 EXCEPT !.processed = scan.processed,
                                    !.current_cursor = page_next_offset,
                                    !.in_page_skip = SkipOnNextPage(l.in_page_skip),
                                    !.next_cursor =
                                        encode_cursor_token(page_next_offset, 0,
                                                            r.user_id, l.dynamic_type),
                                    !.has_more = TRUE] ]
    ELSE Break(l2, scan.processed, NoCursor, FALSE, "end")

\* DynamicListResponse(...).model_dump()
DynamicListResponse(l) ==
    [ dynamics      |-> l.processed,
      total_fetched |-> Len(l.processed),
      filter_type   |-> l.dynamic_type,
      next_cursor   |-> l.next_cursor,
      has_more      |-> l.has_more ]

NoLoc ==
    [ dynamic_type |-> "", current_cursor |-> 0, in_page_skip |-> 0, processed |-> <<>>,
      next_cursor |-> NoCursor, has_more |-> FALSE, scanned_pages |-> 0, seen_offsets |-> {} ]

NoResp ==
    [ dynamics |-> <<>>, total_fetched |-> 0, filter_type |-> "", next_cursor |-> NoCursor,
      has_more |-> FALSE ]

\* The wrapper is entered by a caller of fetch_user_dynamics: a fresh call.
WrapperEntered ==
    /\ wpc' = IF InRange(wcfg, 0) THEN "loop" ELSE "done"
    /\ wresult' = IF InRange(wcfg, 0) THEN NoResult ELSE Exhausted(wcfg, NoException)
    /\ attempt' = 0
    /\ last_exception' = NoException
    /\ sleeps' = <<>>
    /\ calls' = 0
    /\ outcomes' = <<>>

\* The offsets a caller passes along with a cursor.
FollowOffsets == {FIRST_PAGE_CURSOR, 1}

\* The caller's first call, with the arguments chosen at the start.
ClientFirstCall ==
    /\ cpc = "start"
    /\ cpc' = "waiting"
    /\ WrapperEntered
    /\ loc' = NoLoc
    /\ fetched' = <<>>
    /\ UNCHANGED <<wcfg, metrics, feed, req, dpc, collected, exits, resp>>
    /\ UNCHANGED <<codecVars, subVars, parseVars, httpVars, artVars, cacheVars>>

\* The caller follows next_cursor: the same user, limit and dynamic_type,
\* the cursor of the last response, and some offset.
ClientNextCall ==
    /\ cpc = "ready"
    /\ cpc' = "waiting"
    /\ \E off \in FollowOffsets :
           req' = [req EXCEPT !.cursor = resp.next_cursor, !.offset = off]
    /\ WrapperEntered
    /\ loc' = NoLoc
    /\ fetched' = <<>>
    /\ UNCHANGED <<wcfg, metrics, feed, dpc, collected, exits, resp>>
    /\ UNCHANGED <<codecVars, subVars, parseVars, httpVars, artVars, cacheVars>>

\* The ids of the cards the upstream holds.
FeedCards ==
    UNION { {feed[i].cards[k].id : k \in 1..Len(feed[i].cards)} : i \in 1..Len(feed) }

\* The caller follows next_cursor and leaves offset at its default. A caller
\* that has been handed more items than the upstream holds gives up.
ClientFollowsCursor ==
    /\ Len(collected) <= Cardinality(FeedCards)
    /\ ClientNextCall
    /\ req'.offset = FIRST_PAGE_CURSOR

\* func is fetch_user_dynamics: the code up to the while loop passes.
DynEnterOk ==
    /\ wpc = "body"
    /\ dpc = "idle"
    /\ cpc = "waiting"
    /\ DynEnter(req).ok
    /\ calls' = calls + 1
    /\ loc' = DynEnter(req).loc
    /\ dpc' = "scan"
    /\ fetched' = <<>>
    /\ UNCHANGED <<wcfg, wpc, attempt, sleeps, outcomes, last_exception, wresult, metrics>>
    /\ UNCHANGED <<feed, req, cpc, collected, exits, resp>>
    /\ UNCHANGED <<codecVars, subVars, parseVars, httpVars, artVars, cacheVars>>

\* func is fetch_user_dynamics: the validation raises, and the wrapper
\* catches.
DynEnterRaises ==
    /\ wpc = "body"
    /\ dpc = "idle"
    /\ cpc = "waiting"
    /\ ~DynEnter(req).ok
    /\ calls' = calls + 1
    /\ WrapperCatches(DynEnter(req).exc)
    /\ UNCHANGED <<wcfg, sleeps, dynVars, codecVars, subVars, parseVars, httpVars, artVars, cacheVars>>

\* One pass of the while loop that ends in `continue`.
DynPageContinue ==
    /\ dpc = "scan"
    /\ LET o == LoopBody(req, loc)
       IN  /\ ~o.done
           /\ loc' = o.loc
           /\ fetched' = Append(fetched, loc.current_cursor)
    /\ UNCHANGED <<retryVars, metrics, feed, req, dpc, cpc, collected, exits, resp>>
    /\ UNCHANGED <<codecVars, subVars, parseVars, httpVars, artVars, cacheVars>>

\* One pass of the while loop that ends in `break`: the payload is built and
\* returned through the wrapper.
DynPageReturn ==
    /\ dpc = "scan"
    /\ LET o == LoopBody(req, loc)
       IN  /\ o.done
           /\ o.exit # "raise"
           /\ loc' = o.loc
           /\ fetched' = IF o.fetch THEN Append(fetched, loc.current_cursor) ELSE fetched
           /\ resp' = DynamicListResponse(o.loc)
           /\ exits' = exits \cup {o.exit}
    /\ dpc' = "idle"
    /\ wpc' = "done"
    /\ wresult' = [kind |-> "value", exc |-> NoException]
    /\ UNCHANGED <<wcfg, attempt, sleeps, calls, outcomes, last_exception, metrics>>
    /\ UNCHANGED <<feed, req, cpc, collected>>
    /\ UNCHANGED <<codecVars, subVars, parseVars, httpVars, artVars, cacheVars>>

\* One pass of the while loop in which a card's parsing or its conversion
\* raises: nothing in fetch_user_dynamics catches, so the wrapper does.
DynPageRaises ==
    /\ dpc = "scan"
    /\ LET o == LoopBody(req, loc)
       IN  /\ o.done
           /\ o.exit = "raise"
           /\ loc' = o.loc
           /\ fetched' = Append(fetched, loc.current_cursor)
           /\ WrapperCatches(o.exc)
    /\ dpc' = "idle"
    /\ UNCHANGED <<wcfg, sleeps, calls, feed, req, cpc, collected, exits, resp>>
    /\ UNCHANGED <<codecVars, subVars, parseVars, httpVars, artVars, cacheVars>>

\* What u.get_dynamics raises when the upstream is in trouble: errors that
\* the wrapper retries.
UpstreamErrors == { ApiException(0 - 412), RequestError }

\* One pass of the while loop in which `await u.get_dynamics(...)` raises:
\* the locals are left as they were and the wrapper catches.
DynPageFails ==
    /\ dpc = "scan"
    /\ LoopBody(req, loc).fetch
    /\ \E exc \in UpstreamErrors : WrapperCatches(exc)
    /\ fetched' = Append(fetched, loc.current_cursor)
    /\ dpc' = "idle"
    /\ UNCHANGED <<wcfg, sleeps, calls, feed, req, cpc, collected, exits, resp, loc>>
    /\ UNCHANGED <<codecVars, subVars, parseVars, httpVars, artVars, cacheVars>>

\* The caller gets the response or the exception.
ClientReceives ==
    /\ cpc = "waiting"
    /\ wpc = "done"
    /\ IF wresult.kind = "value"
       THEN /\ collected' = collected
                    \o [i \in 1..Len(resp.dynamics) |-> resp.dynamics[i].dynamic_id]
            /\ cpc' = IF resp.has_more THEN "ready" ELSE "finished"
       ELSE /\ collected' = collected
            /\ cpc' = "failed"
    /\ UNCHANGED <<retryVars, metrics, feed, req, dpc, loc, fetched, exits, resp>>
    /\ UNCHANGED <<codecVars, subVars, parseVars, httpVars, artVars, cacheVars>>

-----------------------------------------------------------------------------
(* The cursor codec, applied on its own *)

NotDecoded == [ok |-> FALSE, exc |-> NoException]

CodecEncode ==
    /\ ctoken = NoCursor
    /\ ctoken' = encode_cursor_token(cin.api_cursor, cin.skip_matches, cin.user_id,
                                     cin.dynamic_type)
    /\ UNCHANGED <<cin, cresult, retryVars, metrics, dynVars, subVars, parseVars, httpVars, artVars, cacheVars>>

CodecDecode ==
    /\ ctoken # NoCursor
    /\ cresult = NotDecoded
    /\ cresult' = decode_cursor_token(ctoken, cin.expected_user_id, cin.expected_dynamic_type)
    /\ UNCHANGED <<cin, ctoken, retryVars, metrics, dynVars, subVars, parseVars, httpVars, artVars, cacheVars>>

-----------------------------------------------------------------------------
(* parse_dynamic_item, applied on its own *)

NotParsed == [ok |-> FALSE, exc |-> NoException]

ParseItem ==
    /\ pout = NotParsed
    /\ pout' = parse_dynamic_item(pin)
    /\ UNCHANGED <<pin, retryVars, metrics, dynVars, codecVars, subVars, httpVars, artVars, cacheVars>>

-----------------------------------------------------------------------------
(* services/user_service.py: fetch_article_content, under with_retry *)

KeyError == [cls |-> "KeyError", code |-> 0, msg |-> <<"'", "readInfo", "'">>]
RuntimeError == [cls |-> "RuntimeError", code |-> 0, msg |-> <<"boom">>]
ParserStateError ==
    [cls |-> "ApiException", code |-> 0, msg |-> <<"call ", "fetch_content", " first">>]

\* What a method of the upstream article client may raise.
ArticleExceptions ==
    { KeyError, ParserStateError, ApiException(0 - 412), ApiException(0 - 404), RequestError,
      RuntimeError }

\* "fetch_content" in str(exc)
MentionsFetchContent(msg) == \E i \in 1..Len(msg) : msg[i] = "fetch_content"

\* A variant without the KeyError clause.
HandledByFallbackM(exc) == exc.cls = "ApiException" /\ MentionsFetchContent(exc.msg)
\* The two except clauses of the try block: is exc turned into the fallback?
HandledByFallback(exc) ==
    \/ exc.cls = "KeyError"
    \/ exc.cls = "ApiException" /\ MentionsFetchContent(exc.msg)

NoMarkdown == [kind |-> "None", heading |-> "None", reason |-> <<>>]

\* _build_article_fallback_markdown: the heading is the title if there is
\* one, else cv<article_id>.
_build_article_fallback_markdown(article_info, reason) ==
    [ kind    |-> "fallback",
      heading |-> IF article_info.is_dict /\ article_info.title # "None"
                  THEN article_info.title ELSE "cv",
      reason  |-> reason ]

\* ArticleContentResponse(...).model_dump()
ArticleContentResponse(article_info, markdown_content) ==
    [ title            |-> IF article_info.is_dict THEN article_info.title ELSE "None",
      markdown_content |-> markdown_content ]

ArtCall(method, outcome) == [method |-> method, outcome |-> outcome]

\* The reason the except clause hands to the fallback.
FallbackReason(exc) ==
    IF exc.cls = "KeyError" THEN <<"unsupported payload key: ">> \o exc.msg ELSE exc.msg

\* The wrapped function returns the payload through the wrapper.
ArtReturns(markdown_content) ==
    /\ aout' = ArticleContentResponse(ain, markdown_content)
    /\ apc' = "done"
    /\ wpc' = "done"
    /\ wresult' = [kind |-> "value", exc |-> NoException]
    /\ UNCHANGED <<attempt, outcomes, last_exception, metrics>>

\* An exception leaves the wrapped function.
ArtRaises(exc) ==
    /\ WrapperCatches(exc)
    /\ apc' = "info"
    /\ UNCHANGED aout

\* The caller calls fetch_article_content.
ArtStart ==
    /\ apc = "start"
    /\ apc' = "info"
    /\ WrapperEntered
    /\ UNCHANGED <<wcfg, metrics, ain, acalls, aout>>
    /\ UNCHANGED <<dynVars, codecVars, subVars, parseVars, httpVars, cacheVars>>

\* article_info = await _timed_await(article_client.get_info())
ArtGetInfo ==
    /\ wpc = "body"
    /\ apc = "info"
    /\ calls' = calls + 1
    /\ \/ /\ acalls' = <<ArtCall("get_info", "ok")>>
          /\ apc' = "fetch"
          /\ UNCHANGED <<wpc, attempt, outcomes, last_exception, wresult, metrics, aout>>
       \/ \E exc \in ArticleExceptions :
              /\ acalls' = <<ArtCall("get_info", exc.cls)>>
              /\ ArtRaises(exc)
    /\ UNCHANGED <<wcfg, sleeps, ain>>
    /\ UNCHANGED <<dynVars, codecVars, subVars, parseVars, httpVars, cacheVars>>

\* await _timed_await(article_client.fetch_content()), inside the try block
ArtFetchContent ==
    /\ wpc = "body"
    /\ apc = "fetch"
    /\ \/ /\ acalls' = Append(acalls, ArtCall("fetch_content", "ok"))
          /\ apc' = "markdown"
          /\ UNCHANGED <<wpc, attempt, outcomes, last_exception, wresult, metrics, aout>>
       \/ \E exc \in ArticleExceptions :
              /\ acalls' = Append(acalls, ArtCall("fetch_content", exc.cls))
              /\ IF HandledByFallback(exc)
                 THEN ArtReturns(_build_article_fallback_markdown(ain, FallbackReason(exc)))
                 ELSE ArtRaises(exc)
    /\ UNCHANGED <<wcfg, sleeps, calls, ain>>
    /\ UNCHANGED <<dynVars, codecVars, subVars, parseVars, httpVars, cacheVars>>

\* markdown_content = article_client.markdown(), inside the try block
ArtMarkdown ==
    /\ wpc = "body"
    /\ apc = "markdown"
    /\ \/ /\ acalls' = Append(acalls, ArtCall("markdown", "ok"))
          /\ ArtReturns([NoMarkdown EXCEPT !.kind = "markdown"])
       \/ \E exc \in ArticleExceptions :
              /\ acalls' = Append(acalls, ArtCall("markdown", exc.cls))
              /\ IF HandledByFallback(exc)
                 THEN ArtReturns(_build_article_fallback_markdown(ain, FallbackReason(exc)))
                 ELSE ArtRaises(exc)
    /\ UNCHANGED <<wcfg, sleeps, calls, ain>>
    /\ UNCHANGED <<dynVars, codecVars, subVars, parseVars, httpVars, cacheVars>>

-----------------------------------------------------------------------------
(* infra/http_client.py: the shared client *)

\* Clients are numbered in the order httpx.AsyncClient(...) makes them;
\* is_closed[c] is the is_closed of client c.

\* A variant that makes a client on every call.
NeedsNewClientM(client, closed) == TRUE
\* `_http_client is None or _http_client.is_closed`
NeedsNewClient(client, closed) == client = None \/ closed[client]

HttpCall(op, client, open, changed) ==
    [op |-> op, client |-> client, open |-> open, changed |-> changed]

\* get_shared_http_client()
get_shared_http_client ==
    /\ Len(hist) < MaxOps
    /\ IF NeedsNewClient(http_client, is_closed)
       THEN /\ is_closed' = Append(is_closed, FALSE)
            /\ http_client' = Len(is_closed) + 1
       ELSE UNCHANGED <<http_client, is_closed>>
    /\ hist' = Append(hist, HttpCall("get", http_client', ~is_closed'[http_client'],
                                     is_closed' # is_closed))
    /\ UNCHANGED <<closing, retryVars, metrics, dynVars, codecVars, subVars, parseVars, artVars, cacheVars>>

\* close_shared_http_client(): aclose marks the client closed before it
\* awaits anything.
close_shared_http_client ==
    /\ Len(hist) < MaxOps
    /\ LET client == http_client
       IN  /\ http_client' = None
           /\ is_closed' = IF client # None /\ ~is_closed[client]
                           THEN [is_closed EXCEPT ![client] = TRUE]
                           ELSE is_closed
           /\ hist' = Append(hist, HttpCall("close", client, FALSE,
                                            client # None \/ is_closed' # is_closed))
    /\ UNCHANGED <<closing, retryVars, metrics, dynVars, codecVars, subVars, parseVars, artVars, cacheVars>>

\* close_shared_http_client() called while other coroutines run, up to its
\* await: the module variable is cleared and, for an open client, aclose()
\* marks it closed and then awaits the transport, where the event loop may
\* run other callers. Without an open client there is no await and the call
\* is over at once.
CloseBegins ==
    /\ Len(hist) < MaxOps
    /\ LET client == http_client
           awaits == client # None /\ ~is_closed[client]
           begun == Append(hist, HttpCall("close_begin", client, FALSE, client # None))
       IN  /\ http_client' = None
           /\ is_closed' = IF awaits THEN [is_closed EXCEPT ![client] = TRUE] ELSE is_closed
           /\ closing' = IF awaits THEN Append(closing, client) ELSE closing
           /\ hist' = IF awaits THEN begun
                      ELSE Append(begun, HttpCall("close_end", client, FALSE, FALSE))
    /\ UNCHANGED <<retryVars, metrics, dynVars, codecVars, subVars, parseVars, artVars, cacheVars>>

\* `await client.aclose()` returns and the call is over.
CloseCompletes(k) ==
    /\ k \in 1..Len(closing)
    /\ closing' = [i \in 1..(Len(closing) - 1) |-> IF i < k THEN closing[i] ELSE closing[i + 1]]
    /\ hist' = Append(hist, HttpCall("close_end", closing[k], FALSE, FALSE))
    /\ UNCHANGED <<http_client, is_closed>>
    /\ UNCHANGED <<retryVars, metrics, dynVars, codecVars, subVars, parseVars, artVars, cacheVars>>

-----------------------------------------------------------------------------
(* services/user_service.py: the cached lookups, under alru_cache *)

\* The two cached coroutines, by the names their statistics are recorded
\* under, and the arguments they are called with.
CachedFunctions == {"user_id_by_username", "user_info"}
CacheKeys == {1, 2}
Requests == 1..MaxRequests

\* The arguments the requests bring: one of two usernames, or the one user id.
LookupKeys(fn) == IF fn = "user_id_by_username" THEN CacheKeys ELSE {1}

\* @with_retry(...) under @alru_cache(...): what the cache stores is what the
\* retry wrapper returns.
CachedRetryConfig(fn) ==
    IF fn = "user_id_by_username" THEN RetryConfig(5, 20, TRUE) ELSE RetryConfig(3, 20, FALSE)

\* What an upstream call of a lookup raises when it fails: an error the
\* wrapper retries, and one it does not.
LookupErrors == { ApiException(0 - 412), ApiException(0 - 404) }

\* What a lookup returns when the upstream answers: the search may find no
\* user.
LookupValues(fn) == IF fn = "user_id_by_username" THEN {"mid", "None"} ELSE {"user_data"}

NoCache == [fn \in CachedFunctions |-> [k \in CacheKeys |-> 0]]
NoCacheInfo == [fn \in CachedFunctions |-> [hits |-> 0, misses |-> 0]]
NoRequest ==
    [ fn |-> "", key |-> 0, pc |-> "idle", before |-> 0, found |-> "none", fut |-> 0,
      recorded |-> "none", result |-> "none" ]
NoRequests == [r \in Requests |-> NoRequest]

\* `(after.hits > before.hits) if before and after else False`: cache_info()
\* is a named tuple with fields, so it is true.
_cache_hit(before, after) == after > before

\* record_cache_hit(cache_name, hit)
record_cache_hit(hit) == IF hit THEN "hit" ELSE "miss"

\* The task alru_cache creates on a miss: the wrapped coroutine, running.
NewTask(fn, key, r) ==
    [ fn |-> fn, key |-> key, state |-> "running", tries |-> 0, result |-> "none",
      exhausted |-> FALSE, expired |-> FALSE, creator |-> r ]

\* get_user_id_by_username / fetch_user_info up to the first suspension:
\* cache_info() is read, and the cached coroutine looks the key up (the
\* requests are numbered in the order they arrive). An entry
\* whose future is done is returned at once, and the statistic is recorded in
\* the same step; an entry in flight is awaited; without an entry a task is
\* created and awaited.
CachedLookup(r) ==
    /\ reqs[r].pc = "idle"
    /\ \A q \in 1..(r - 1) : reqs[q].pc # "idle"
    /\ \E fn \in CachedFunctions : \E key \in LookupKeys(fn) :
        LET entry == cache[fn][key]
            before == cinfo[fn].hits
            seen == [reqs[r] EXCEPT !.fn = fn, !.key = key, !.before = before]
        IN  IF entry # 0
            THEN /\ cinfo' = [cinfo EXCEPT ![fn].hits = @ + 1]
                 /\ reqs' = [reqs EXCEPT ![r] =
                        IF ctasks[entry].state = "running"
                        THEN [seen EXCEPT !.pc = "waiting", !.found = "pending",
                                          !.fut = entry]
                        ELSE [seen EXCEPT !.pc = "done", !.found = "value", !.fut = entry,
                                          !.result = ctasks[entry].result,
                                          !.recorded =
                                              record_cache_hit(
                                                  _cache_hit(before, cinfo'[fn].hits))]]
                 /\ UNCHANGED <<cache, ctasks>>
            ELSE /\ cinfo' = [cinfo EXCEPT ![fn].misses = @ + 1]
                 /\ ctasks' = Append(ctasks, NewTask(fn, key, r))
                 /\ cache' = [cache EXCEPT ![fn][key] = Len(ctasks) + 1]
                 /\ reqs' = [reqs EXCEPT ![r] =
                        [seen EXCEPT !.pc = "waiting", !.found = "absent",
                                     !.fut = Len(ctasks) + 1]]
    /\ UNCHANGED <<retryVars, metrics, dynVars, codecVars, subVars, parseVars, httpVars, artVars>>

\* The task after an attempt of its wrapper failed with exc, as attempt
\* number t.tries: another attempt, the default as the value, or the
\* exception.
TaskAfterFailure(t, exc) ==
    LET cfg == CachedRetryConfig(t.fn)
        tried == [t EXCEPT !.tries = @ + 1]
    IN  IF ~CaughtRetryable(cfg, exc)
        THEN [tried EXCEPT !.state = "raised", !.result = "exc"]
        ELSE IF InRange(cfg, t.tries + 1) THEN tried
        ELSE IF Exhausted(cfg, exc).kind = "default"
        THEN [tried EXCEPT !.state = "value", !.result = "None", !.exhausted = TRUE]
        ELSE [tried EXCEPT !.state = "raised", !.result = "exc", !.exhausted = TRUE]

\* One attempt of the task's wrapper: the upstream call returns or raises.
\* When the task ends, its done callback sets the future: a value stays in
\* the cache, an exception takes the entry out.
CachedTaskAttempt(i) ==
    /\ ctasks[i].state = "running"
    /\ \/ \E v \in LookupValues(ctasks[i].fn) :
              ctasks' = [ctasks EXCEPT ![i] = [@ EXCEPT !.tries = @ + 1, !.state = "value",
                                                      !.result = v]]
       \/ \E exc \in LookupErrors :
              ctasks' = [ctasks EXCEPT ![i] = TaskAfterFailure(@, exc)]
    /\ cache' = IF ctasks'[i].state = "raised" /\ cache[ctasks[i].fn][ctasks[i].key] = i
                THEN [cache EXCEPT ![ctasks[i].fn][ctasks[i].key] = 0]
                ELSE cache
    /\ UNCHANGED <<cinfo, reqs>>
    /\ UNCHANGED <<retryVars, metrics, dynVars, codecVars, subVars, parseVars, httpVars, artVars>>

\* The awaited future is done: the call returns its value, and cache_info()
\* is read again and the statistic recorded; or the call raises, and nothing
\* is recorded.
CachedCallReturns(r) ==
    /\ reqs[r].pc = "waiting"
    /\ ctasks[reqs[r].fut].state # "running"
    /\ reqs' = [reqs EXCEPT ![r] =
           IF ctasks[reqs[r].fut].state = "value"
           THEN [@ EXCEPT !.pc = "done", !.result = ctasks[reqs[r].fut].result,
                          !.recorded =
                              record_cache_hit(
                                  _cache_hit(reqs[r].before, cinfo[reqs[r].fn].hits))]
           ELSE [@ EXCEPT !.pc = "done", !.result = "exc"]]
    /\ UNCHANGED <<cache, cinfo, ctasks>>
    /\ UNCHANGED <<retryVars, metrics, dynVars, codecVars, subVars, parseVars, httpVars, artVars>>

\* ttl: the timer set when the future got its value takes the entry out.
CacheTtlExpires(fn, key) ==
    /\ cache[fn][key] # 0
    /\ ctasks[cache[fn][key]].state = "value"
    /\ cache' = [cache EXCEPT ![fn][key] = 0]
    /\ ctasks' = [ctasks EXCEPT ![cache[fn][key]].expired = TRUE]
    /\ UNCHANGED <<cinfo, reqs>>
    /\ UNCHANGED <<retryVars, metrics, dynVars, codecVars, subVars, parseVars, httpVars, artVars>>

-----------------------------------------------------------------------------
(* services/user_service.py: the subtitle aggregator *)

SUBTITLE_FETCH_CONCURRENCY == 4
DEFAULT_SUBTITLE_LANG == <<"auto">>
DEFAULT_SUBTITLE_MAX_CHARS == 12000

\* Language tags are sequences of subtags and "-"; a track without a lan has
\* the empty one.
DEFAULT_SUBTITLE_LANGUAGE_PRIORITY ==
    << <<"zh", "-", "cn">>, <<"zh", "-", "hans">>, <<"zh", "-", "hant">>,
       <<"ai", "-", "zh">>, <<"en", "-", "us">>, <<"en">>, <<"ai", "-", "en">> >>

\* str.lower on the words the inputs use
LowerMap ==
    ("CN" :> "cn") @@ ("US" :> "us") @@ ("EN" :> "en") @@ ("ZH" :> "zh")
    @@ ("Hans" :> "hans") @@ ("Hant" :> "hant") @@ ("AUTO" :> "auto")
    @@ ("FULL" :> "full") @@ ("Minimal" :> "minimal")

Lower(s) == [i \in 1..Len(s) |-> IF s[i] \in DOMAIN LowerMap THEN LowerMap[s[i]] ELSE s[i]]

\* s.startswith(p)
StartsWith(s, p) == Len(p) <= Len(s) /\ SubSeq(s, 1, Len(p)) = p

\* value.strip().lower() or None, None being the empty sequence
_normalize_language_tag(value) == Lower(Strip(value))

\* "\n".join(lines)
RECURSIVE Join(_)
Join(lines) ==
    IF lines = <<>> THEN <<>>
    ELSE IF Len(lines) = 1 THEN lines[1]
    ELSE lines[1] \o <<"\n">> \o Join(Tail(lines))

\* A variant that compares the mode as it was passed.
NormalizedModeM(subtitle_mode) ==
    IF subtitle_mode = <<"minimal">> THEN "minimal"
    ELSE IF subtitle_mode = <<"full">> THEN "full"
    ELSE "smart"
\* The mode of a call: minimal, full, and smart for anything else.
NormalizedMode(subtitle_mode) ==
    LET mode == Lower(Strip(subtitle_mode))
    IN  IF mode = <<"minimal">> THEN "minimal"
        ELSE IF mode = <<"full">> THEN "full"
        ELSE "smart"

\* subtitle_max_chars, or the default when it is below 1
CharBudget(subtitle_max_chars) ==
    IF subtitle_max_chars < 1 THEN DEFAULT_SUBTITLE_MAX_CHARS ELSE subtitle_max_chars

\* An error of the errors list: what failed, for which cid and language.
SubError(kind, cid, lan) == [kind |-> kind, cid |-> cid, lan |-> lan]

\* _fetch_subtitle_text: the text of the body at the URL, or "" and an error.
_fetch_subtitle_text(subtitle_url) ==
    IF subtitle_url.kind = "missing"
    THEN [text |-> <<>>, error |-> "subtitle_url missing"]
    ELSE IF subtitle_url.kind = "fail"
    THEN [text |-> <<>>, error |-> "fetch failed"]
    ELSE [text |-> subtitle_url.body, error |-> "None"]

\* _build_track_metadata: the track, with no text yet, and its URL
_build_track_metadata(cid, subtitle_item) ==
    [ track        |-> [cid |-> cid, lan |-> subtitle_item.lan, text |-> <<>>],
      subtitle_url |-> subtitle_item.subtitle_url ]

\* _collect_page_tracks of a page without a cid
PageWithoutCid == [tracks |-> <<>>, errors |-> <<SubError("page without cid", None, <<>>)>>]

\* A variant that drops a failure of get_subtitle without a trace.
_collect_page_tracksM(page) ==
    IF page.meta = "ok"
    THEN [tracks |-> [k \in 1..Len(page.subtitles) |->
                         _build_track_metadata(page.cid, page.subtitles[k])],
          errors |-> <<>>]
    ELSE [tracks |-> <<>>, errors |-> <<>>]
\* _collect_page_tracks once get_subtitle has answered or failed
_collect_page_tracks(page) ==
    IF page.meta = "fail"
    THEN [tracks |-> <<>>,
          errors |-> <<SubError("subtitle metadata failed", page.cid, <<>>)>>]
    ELSE IF page.meta = "invalid"
    THEN [tracks |-> <<>>,
          errors |-> <<SubError("invalid subtitle payload", page.cid, <<>>)>>]
    ELSE [tracks |-> [k \in 1..Len(page.subtitles) |->
                         _build_track_metadata(page.cid, page.subtitles[k])],
          errors |-> <<>>]

\* A variant that does not count the separator.
SeparatorCostM(full_text_lines) == 0
\* if text: separator_cost = 1 if full_text_lines else 0
SeparatorCost(full_text_lines) == IF full_text_lines # <<>> THEN 1 ELSE 0

\* A variant in which the last track decides.
OrTruncatedM(truncated, was_truncated) == was_truncated
\* truncated = truncated or was_truncated
OrTruncated(truncated, was_truncated) == truncated \/ was_truncated

\* _append_track_with_budget: the lists and the budget after the track, and
\* whether its text was cut.
_append_track_with_budget(track, raw_text, selected_tracks, full_text_lines, remaining_budget) ==
    LET separator_cost == SeparatorCost(full_text_lines)
        r == IF raw_text = <<>>
             THEN [text |-> <<>>, remaining |-> remaining_budget, cut |-> FALSE]
             ELSE IF remaining_budget <= separator_cost
             THEN [text |-> <<>>, remaining |-> remaining_budget, cut |-> TRUE]
             ELSE IF Len(raw_text) > remaining_budget - separator_cost
             THEN [text      |-> SubSeq(raw_text, 1, remaining_budget - separator_cost),
                   remaining |-> 0, cut |-> TRUE]
             ELSE [text      |-> raw_text,
                   remaining |-> remaining_budget - separator_cost - Len(raw_text),
                   cut       |-> FALSE]
    IN  [ selected_tracks  |-> Append(selected_tracks, [track EXCEPT !.text = r.text]),
          full_text_lines  |-> IF r.text # <<>> THEN Append(full_text_lines, r.text)
                               ELSE full_text_lines,
          remaining_budget |-> r.remaining,
          was_truncated    |-> r.cut ]

\* The first of the indexes, or 0 when there is none: the item at which a
\* for loop over a list returns.
\* A variant that takes the last one.
FirstIndexM(indexes) ==
    IF indexes = {} THEN 0
    ELSE CHOOSE i \in indexes : \A j \in indexes : i >= j
FirstIndex(indexes) ==
    IF indexes = {} THEN 0
    ELSE CHOOSE i \in indexes : \A j \in indexes : i <= j

NoReason == [kind |-> "None", requested |-> <<>>, selected |-> <<>>]

\* _select_smart_subtitle_candidate: the index of the candidate and the
\* fallback reason.
_select_smart_subtitle_candidate(candidates, requested_language) ==
    LET requested_raw == Strip(requested_language)
        requested_norm == _normalize_language_tag(requested_raw)
        normalized_auto == _normalize_language_tag(DEFAULT_SUBTITLE_LANG)
        specific == requested_norm # <<>> /\ requested_norm # normalized_auto
        Norm(c) == _normalize_language_tag(c.track.lan)
        Exact(c) == Norm(c) = requested_norm
        Related(c) ==
            /\ Norm(c) # <<>>
            /\ \/ StartsWith(Norm(c), requested_norm \o <<"-">>)
               \/ StartsWith(requested_norm, Norm(c) \o <<"-">>)
        Where(Test(_)) == {i \in 1..Len(candidates) : Test(candidates[i])}
        best == FirstIndex({p \in 1..Len(DEFAULT_SUBTITLE_LANGUAGE_PRIORITY) :
                               \E i \in 1..Len(candidates) :
                                   Norm(candidates[i]) = DEFAULT_SUBTITLE_LANGUAGE_PRIORITY[p]})
        IsBest(c) == best # 0 /\ Norm(c) = DEFAULT_SUBTITLE_LANGUAGE_PRIORITY[best]
        Selected(i) == IF candidates[i].track.lan # <<>> THEN candidates[i].track.lan
                       ELSE <<"unknown">>
        Reason(kind, i) ==
            [kind |-> kind, requested |-> requested_raw, selected |-> Selected(i)]
        exact == FirstIndex(Where(Exact))
        related == FirstIndex(Where(Related))
        preferred == FirstIndex(Where(IsBest))
    IN  IF candidates = <<>> THEN [index |-> 0, reason |-> NoReason]
        ELSE IF specific /\ exact # 0 THEN [index |-> exact, reason |-> NoReason]
        ELSE IF specific /\ related # 0
        THEN [index |-> related, reason |-> Reason("not exact; matched", related)]
        ELSE IF preferred # 0
        THEN [index  |-> preferred,
              reason |-> IF specific
                         THEN Reason("unavailable; fallback to", preferred)
                         ELSE NoReason]
        ELSE [index  |-> 1,
              reason |-> IF specific
                         THEN Reason("unavailable; fallback to", 1)
                         ELSE [NoReason EXCEPT !.kind =
                                 "auto preference not matched; fallback to first available"]]

\* The response of the paths that keep no track.
EmptySubtitleResponse(mode, requested_language, available_languages, fallback_reason, errors) ==
    [ mode |-> mode, requested_language |-> requested_language,
      available_languages |-> available_languages, selected_language |-> <<>>,
      fallback_reason |-> fallback_reason, truncated |-> FALSE, returned_chars |-> 0,
      dropped_tracks |-> 0, track_count |-> 0, tracks |-> <<>>, full_text |-> <<>>,
      errors |-> errors ]

\* The languages of the candidates, each once, in the order of the candidates.
RECURSIVE AvailableLanguages(_, _)
AvailableLanguages(candidates, seen_languages) ==
    IF candidates = <<>> THEN <<>>
    ELSE LET lan == Head(candidates).track.lan
             lan_norm == _normalize_language_tag(lan)
         IN  IF lan_norm = <<>> \/ lan_norm \in seen_languages
             THEN AvailableLanguages(Tail(candidates), seen_languages)
             ELSE <<lan>> \o AvailableLanguages(Tail(candidates),
                                                seen_languages \cup {lan_norm})

\* The loop over the fetched texts of the candidates kept, in their order.
RECURSIVE AppendTracks(_, _, _, _)
AppendTracks(candidates, results, indexes, acc) ==
    IF indexes = <<>> THEN acc
    ELSE LET j == Head(indexes)
             track == candidates[j].track
             a == _append_track_with_budget(track, results[j].text, acc.selected_tracks,
                                            acc.full_text_lines, acc.remaining_budget)
         IN  AppendTracks(candidates, results, Tail(indexes),
                 [ selected_tracks  |-> a.selected_tracks,
                   full_text_lines  |-> a.full_text_lines,
                   remaining_budget |-> a.remaining_budget,
                   truncated        |-> OrTruncated(acc.truncated, a.was_truncated),
                   errors           |-> IF results[j].error # "None"
                                        THEN Append(acc.errors,
                                                 SubError(results[j].error, track.cid,
                                                          track.lan))
                                        ELSE acc.errors ])

Max(a, b) == IF a >= b THEN a ELSE b

\* A variant that takes one track to be kept, as smart does.
DroppedTracksM(candidates, selected_tracks) == Max(0, Len(candidates) - 1)
\* dropped_tracks = max(0, len(candidates) - len(selected_tracks))
DroppedTracks(candidates, selected_tracks) ==
    Max(0, Len(candidates) - Len(selected_tracks))

\* The response of the smart and the full mode once the texts are fetched.
SubtitleResponse(in, candidates, errors, results, indexes, selected_language, fallback_reason) ==
    LET acc == AppendTracks(candidates, results, indexes,
                   [ selected_tracks |-> <<>>, full_text_lines |-> <<>>,
                     remaining_budget |-> CharBudget(in.subtitle_max_chars),
                     truncated |-> FALSE, errors |-> errors ])
        full_text == Join(acc.full_text_lines)
    IN  [ mode |-> NormalizedMode(in.subtitle_mode),
          requested_language |-> in.subtitle_lang,
          available_languages |-> AvailableLanguages(candidates, {}),
          selected_language |-> selected_language,
          fallback_reason |-> fallback_reason,
          truncated |-> acc.truncated,
          returned_chars |-> Len(full_text),
          dropped_tracks |-> DroppedTracks(candidates, acc.selected_tracks),
          track_count |-> Len(acc.selected_tracks),
          tracks |-> acc.selected_tracks,
          full_text |-> full_text,
          errors |-> acc.errors ]

RECURSIVE Concat(_)
Concat(ss) == IF ss = <<>> THEN <<>> ELSE Head(ss) \o Concat(Tail(ss))

NoPageResult == [tracks |-> <<>>, errors |-> <<>>]
NoTextResult == [text |-> <<>>, error |-> "None"]
NoSubResponse == EmptySubtitleResponse("", <<>>, <<>>, NoReason, <<>>)

\* The calls that hold the semaphore: awaiting get_subtitle or a text.
InFlight ==
    Cardinality({i \in DOMAIN ptask : ptask[i] = "running"})
    + Cardinality({j \in DOMAIN ttask : ttask[j] = "running"})

\* A variant without the semaphore.
SemaphoreFreeM == TRUE
\* async with semaphore: a task enters while fewer than
\* SUBTITLE_FETCH_CONCURRENCY hold it.
SemaphoreFree == InFlight < SUBTITLE_FETCH_CONCURRENCY

\* A variant that fetches the text of every candidate in smart mode too.
TextTasksM(mode, n, index) == [j \in 1..n |-> "waiting"]
\* The text fetches of a call: smart awaits the one of the selected
\* candidate, full gathers one per candidate.
TextTasks(mode, n, index) ==
    [j \in 1..n |-> IF mode = "smart" /\ j # index THEN "none" ELSE "waiting"]

\* A variant that takes the results as they complete.
GatherOrderM(n, done) == done
\* asyncio.gather returns the results in the order of its arguments,
\* whatever the order the tasks completed in.
GatherOrder(n, done) == [i \in 1..n |-> i]

\* _collect_subtitles up to the gather of the page tasks; minimal returns at
\* once, and a page without a cid is done without a call.
SubStart ==
    /\ spc = "start"
    /\ IF NormalizedMode(sin.subtitle_mode) = "minimal"
       THEN /\ sout' = EmptySubtitleResponse("minimal", sin.subtitle_lang, <<>>,
                           [NoReason EXCEPT !.kind =
                               "subtitle metadata and text skipped by mode=minimal"],
                           <<>>)
            /\ spc' = "done"
            /\ UNCHANGED <<ptask, pres, mcalls>>
       ELSE /\ mcalls' = [i \in 1..Len(sin.pages) |-> 0]
            /\ ptask' = [i \in 1..Len(sin.pages) |->
                            IF sin.pages[i].cid = None THEN "done" ELSE "waiting"]
            /\ pres' = [i \in 1..Len(sin.pages) |->
                           IF sin.pages[i].cid = None THEN PageWithoutCid
                           ELSE NoPageResult]
            /\ spc' = "meta"
            /\ UNCHANGED sout
    /\ UNCHANGED <<sin, cands, serrors, ttask, tres, kept, sreason, tcalls, pdone, tdone>>
    /\ UNCHANGED <<retryVars, metrics, dynVars, codecVars, parseVars, httpVars, artVars, cacheVars>>

\* A page task enters the semaphore and calls get_subtitle.
MetaAcquire ==
    /\ spc = "meta"
    /\ SemaphoreFree
    /\ \E i \in DOMAIN ptask :
        /\ ptask[i] = "waiting"
        /\ ptask' = [ptask EXCEPT ![i] = "running"]
        /\ mcalls' = [mcalls EXCEPT ![i] = @ + 1]
    /\ UNCHANGED <<sin, spc, pres, cands, serrors, ttask, tres, kept, sreason, sout>>
    /\ UNCHANGED <<tcalls, pdone, tdone>>
    /\ UNCHANGED <<retryVars, metrics, dynVars, codecVars, parseVars, httpVars, artVars, cacheVars>>

\* get_subtitle answers or fails; the page task leaves the semaphore.
MetaComplete ==
    /\ spc = "meta"
    /\ \E i \in DOMAIN ptask :
        /\ ptask[i] = "running"
        /\ ptask' = [ptask EXCEPT ![i] = "done"]
        /\ pres' = [pres EXCEPT ![i] = _collect_page_tracks(sin.pages[i])]
        /\ pdone' = Append(pdone, i)
    /\ UNCHANGED <<sin, spc, cands, serrors, ttask, tres, kept, sreason, sout>>
    /\ UNCHANGED <<mcalls, tcalls, tdone>>
    /\ UNCHANGED <<retryVars, metrics, dynVars, codecVars, parseVars, httpVars, artVars, cacheVars>>

\* The gather of the page tasks returns: candidates and errors in the order
\* of the pages; no candidate ends the call, smart selects one candidate and
\* full keeps them all.
PagesGathered ==
    /\ spc = "meta"
    /\ \A i \in DOMAIN ptask : ptask[i] = "done"
    /\ LET order == GatherOrder(Len(pres), pdone)
           candidates == Concat([k \in 1..Len(order) |-> pres[order[k]].tracks])
           errors == Concat([k \in 1..Len(order) |-> pres[order[k]].errors])
           mode == NormalizedMode(sin.subtitle_mode)
           sel == _select_smart_subtitle_candidate(candidates, sin.subtitle_lang)
       IN  /\ cands' = candidates
           /\ serrors' = errors
           /\ IF candidates = <<>>
              THEN /\ sout' = EmptySubtitleResponse(mode, sin.subtitle_lang,
                                  AvailableLanguages(candidates, {}),
                                  [NoReason EXCEPT !.kind = "No subtitle tracks available"],
                                  errors)
                   /\ spc' = "done"
                   /\ UNCHANGED <<ttask, tres, kept, sreason, tcalls>>
              ELSE /\ kept' = IF mode = "smart" THEN <<sel.index>>
                              ELSE [j \in 1..Len(candidates) |-> j]
                   /\ sreason' = IF mode = "smart" THEN sel.reason ELSE NoReason
                   /\ ttask' = TextTasks(mode, Len(candidates), sel.index)
                   /\ tres' = [j \in 1..Len(candidates) |-> NoTextResult]
                   /\ tcalls' = [j \in 1..Len(candidates) |-> 0]
                   /\ spc' = "text"
                   /\ UNCHANGED sout
    /\ UNCHANGED <<sin, ptask, pres, mcalls, pdone, tdone>>
    /\ UNCHANGED <<retryVars, metrics, dynVars, codecVars, parseVars, httpVars, artVars, cacheVars>>

\* A text task enters the semaphore and calls _fetch_subtitle_text.
TextAcquire ==
    /\ spc = "text"
    /\ SemaphoreFree
    /\ \E j \in DOMAIN ttask :
        /\ ttask[j] = "waiting"
        /\ ttask' = [ttask EXCEPT ![j] = "running"]
        /\ tcalls' = [tcalls EXCEPT ![j] = @ + 1]
    /\ UNCHANGED <<sin, spc, ptask, pres, cands, serrors, tres, kept, sreason, sout>>
    /\ UNCHANGED <<mcalls, pdone, tdone>>
    /\ UNCHANGED <<retryVars, metrics, dynVars, codecVars, parseVars, httpVars, artVars, cacheVars>>

\* _fetch_subtitle_text returns; the text task leaves the semaphore.
TextComplete ==
    /\ spc = "text"
    /\ \E j \in DOMAIN ttask :
        /\ ttask[j] = "running"
        /\ ttask' = [ttask EXCEPT ![j] = "done"]
        /\ tres' = [tres EXCEPT ![j] = _fetch_subtitle_text(cands[j].subtitle_url)]
        /\ tdone' = Append(tdone, j)
    /\ UNCHANGED <<sin, spc, ptask, pres, cands, serrors, kept, sreason, sout>>
    /\ UNCHANGED <<mcalls, tcalls, pdone>>
    /\ UNCHANGED <<retryVars, metrics, dynVars, codecVars, parseVars, httpVars, artVars, cacheVars>>

\* The texts are there: the tracks are appended within the budget and the
\* response is built.
SubMerge ==
    /\ spc = "text"
    /\ \A j \in DOMAIN ttask : ttask[j] \in {"none", "done"}
    /\ LET smart == NormalizedMode(sin.subtitle_mode) = "smart"
           order == GatherOrder(Len(cands), tdone)
           track_results == IF smart THEN tres
                            ELSE [k \in 1..Len(order) |-> tres[order[k]]]
       IN  sout' = SubtitleResponse(sin, cands, serrors, track_results, kept,
                       IF smart THEN cands[kept[1]].track.lan ELSE <<>>,
                       sreason)
    /\ spc' = "done"
    /\ UNCHANGED <<sin, ptask, pres, cands, serrors, ttask, tres, kept, sreason>>
    /\ UNCHANGED <<mcalls, tcalls, pdone, tdone>>
    /\ UNCHANGED <<retryVars, metrics, dynVars, codecVars, parseVars, httpVars, artVars, cacheVars>>

-----------------------------------------------------------------------------
(* The upstream feeds and the arguments of the model *)

\* The pages of a chain feed, by the discriminators of their cards: no card,
\* matching and other cards, a match after or between others.
PageShapes == { <<>>, <<4>>, <<8>>, <<4, 4>>, <<8, 4>>, <<4, 8, 4>> }

\* The feed whose pages have these cards: page i is at offset i - 1 and
\* links to page i + 1; the last page reports has_more false.
ChainFeed(shapes) ==
    [ i \in 1..Len(shapes) |->
        [ cards       |-> [k \in 1..Len(shapes[i]) |->
                              PlainCard(<<i, k>>, shapes[i][k])],
          has_more    |-> i < Len(shapes),
          next_offset |-> IF i < Len(shapes) THEN i ELSE None ] ]

\* A run of equal pages: the lengths around MAX_SCAN_PAGES, and short ones.
RunLengths == {0, MAX_SCAN_PAGES, MAX_SCAN_PAGES + 1}
RunShapes == {<<8>>, <<4>>}

\* A chain: up to MaxHead pages with cards, a run of equal pages, and a last
\* page, which may have no card.
ChainShapes ==
    { head \o [i \in 1..n |-> run] \o <<tail>> :
        head \in UNION { [1..h -> PageShapes \ {<<>>}] : h \in 0..MaxHead },
        n \in RunLengths, run \in RunShapes, tail \in PageShapes }

ChainTypeInputs == { TypeChars["TEXT"], <<" ", "a", "l", "l", "_", "r", "a", "w">> }

IdleRetry ==
    /\ wpc = "idle"
    /\ attempt = 0
    /\ sleeps = <<>>
    /\ calls = 0
    /\ outcomes = <<>>
    /\ last_exception = NoException
    /\ wresult = NoResult
    /\ metrics = [request_id |-> "None", retry_count |-> 0]

NoReq == [user_id |-> 0, limit |-> 0, dynamic_type |-> <<>>, cursor |-> NoCursor, offset |-> None]

IdleDyn ==
    /\ feed = <<>>
    /\ req = NoReq
    /\ dpc = "idle"
    /\ loc = NoLoc
    /\ fetched = <<>>
    /\ cpc = "off"
    /\ collected = <<>>
    /\ exits = {}
    /\ resp = NoResp

NoCard == PlainCard(<<0, 0>>, None)

NoArticle == [is_dict |-> FALSE, title |-> "None"]
NoArticleOut == [title |-> "None", markdown_content |-> NoMarkdown]

IdleArt ==
    /\ ain = NoArticle
    /\ apc = "off"
    /\ acalls = <<>>
    /\ aout = NoArticleOut

IdleHttp ==
    /\ http_client = None
    /\ is_closed = <<>>
    /\ hist = <<>>
    /\ closing = <<>>

IdleCache ==
    /\ cache = NoCache
    /\ cinfo = NoCacheInfo
    /\ ctasks = <<>>
    /\ reqs = NoRequests

IdleParse ==
    /\ pin = NoCard
    /\ pout = NotParsed

IdleCodec ==
    /\ cin = [api_cursor |-> None, skip_matches |-> 0, user_id |-> 0, dynamic_type |-> "",
              expected_user_id |-> 0, expected_dynamic_type |-> ""]
    /\ ctoken = NoCursor
    /\ cresult = NotDecoded

\* What a subtitle URL leads to: nothing (no URL), a failed fetch, or a body
\* of up to MaxTextLen characters, all the given one.
SubtitleUrls(char) ==
    { [kind |-> "missing", body |-> <<>>], [kind |-> "fail", body |-> <<>>] }
    \cup { [kind |-> "ok", body |-> [i \in 1..n |-> char]] : n \in 0..MaxTextLen }

SubtitleItem(lan, url) == [lan |-> lan, subtitle_url |-> url]

SubPage(cid, meta, subtitles) == [cid |-> cid, meta |-> meta, subtitles |-> subtitles]

\* The pages of a video: one, two and three tracks over one and two pages,
\* pages without a cid and pages whose metadata fails, and no page.
SubPageInputs ==
    { <<SubPage(1, "ok", <<SubtitleItem(<<"ai", "-", "en">>, a)>>)>> :
        a \in SubtitleUrls("a") }
    \cup
    { <<SubPage(1, "ok", << SubtitleItem(<<"ai", "-", "en">>, a),
                            SubtitleItem(<<"zh", "-", "CN">>, b) >>)>> :
        a \in SubtitleUrls("a"), b \in SubtitleUrls("b") }
    \cup
    { << SubPage(1, "ok", <<SubtitleItem(<<"ja">>, a)>>),
         SubPage(2, "ok", << SubtitleItem(<<"ai", "-", "en">>, b),
                             SubtitleItem(<<"zh", "-", "CN">>, c) >>) >> :
        a \in SubtitleUrls("a"), b \in SubtitleUrls("b"), c \in SubtitleUrls("c") }
    \cup
    { <<SubPage(cid, meta, <<>>),
        SubPage(2, "ok", <<SubtitleItem(<<"en">>, a)>>)>> :
        cid \in {None, 1}, meta \in {"fail", "invalid"}, a \in SubtitleUrls("a") }
    \cup
    { <<SubPage(1, "fail", <<>>)>>, <<>> }

NoSubIn == [subtitle_mode |-> <<>>, subtitle_lang |-> <<>>, subtitle_max_chars |-> 0,
            pages |-> <<>>]

IdleSub ==
    /\ sin = NoSubIn
    /\ spc = "off"
    /\ ptask = <<>>
    /\ pres = <<>>
    /\ cands = <<>>
    /\ serrors = <<>>
    /\ ttask = <<>>
    /\ tres = <<>>
    /\ kept = <<>>
    /\ sreason = NoReason
    /\ sout = NoSubResponse
    /\ mcalls = <<>>
    /\ tcalls = <<>>
    /\ pdone = <<>>
    /\ tdone = <<>>

-----------------------------------------------------------------------------
(* The specifications *)

\* The retry wrapper around an arbitrary function.
InitRetry ==
    /\ wcfg \in { RetryConfig(m, 20, d) : m \in 0..MaxRetriesBound, d \in BOOLEAN }
    /\ IdleRetry
    /\ IdleHttp
    /\ IdleArt
    /\ IdleCache
    /\ IdleParse
    /\ IdleDyn
    /\ IdleCodec
    /\ IdleSub

NextRetry ==
    \/ BeginRequest
    \/ WrapperCall
    \/ WrapperSleep
    \/ FuncReturns
    \/ FuncRaises

SpecRetry == InitRetry /\ [][NextRetry]_vars

\* The wrapper with base delays of 2, 8 and 16 seconds under the default
\* max_delay of 30 seconds, so that the cap is reached within the retries.
DelayBases == {20, 80, 160}

InitRetryDelay ==
    /\ wcfg \in { RetryConfig(m, b, d) :
                    m \in 0..MaxRetriesBound, b \in DelayBases, d \in BOOLEAN }
    /\ IdleRetry
    /\ IdleHttp
    /\ IdleArt
    /\ IdleCache
    /\ IdleParse
    /\ IdleDyn
    /\ IdleCodec
    /\ IdleSub

SpecRetryDelay == InitRetryDelay /\ [][NextRetry]_vars

\* fetch_user_dynamics, decorated with with_retry(max_retries=3,
\* base_delay=2.0), called by a caller that follows next_cursor over a chain
\* feed.
InitDyn ==
    /\ wcfg = RetryConfig(3, 20, FALSE)
    /\ IdleRetry
    /\ IdleHttp
    /\ IdleArt
    /\ IdleCache
    /\ IdleParse
    /\ IdleCodec
    /\ IdleSub
    /\ feed \in { ChainFeed(sh) : sh \in ChainShapes }
    /\ req \in [ user_id : {1}, limit : 1..MaxLimit, dynamic_type : ChainTypeInputs,
                 cursor : {NoCursor}, offset : {FIRST_PAGE_CURSOR} ]
    /\ dpc = "idle"
    /\ loc = NoLoc
    /\ fetched = <<>>
    /\ cpc = "start"
    /\ collected = <<>>
    /\ exits = {}
    /\ resp = NoResp

NextDyn ==
    \/ ClientFirstCall
    \/ ClientNextCall
    \/ WrapperSleep
    \/ DynEnterOk
    \/ DynEnterRaises
    \/ DynPageContinue
    \/ DynPageReturn
    \/ ClientReceives

SpecDyn == InitDyn /\ [][NextDyn]_vars

\* fetch_user_dynamics called with arguments of every kind, valid and not,
\* over two short feeds.
ValFeeds == { ChainFeed(<<<<4, 4, 4>>, <<4, 4>>>>), ChainFeed(<<<<8>>, <<4, 8>>>>) }

ValTypeInputs ==
    { TypeChars["TEXT"], <<"v", "i", "d", "e", "o">>, <<>>, <<"B", "A", "D">>,
      <<"4", "1", "2">> }

ValCursors ==
    { NoCursor,
      [NoCursor EXCEPT !.kind = "empty"],
      JunkCursor,
      encode_cursor_token(0, 1, 1, "TEXT"),
      encode_cursor_token(1, 0, 1, "TEXT"),
      encode_cursor_token(None, 0, 1, "VIDEO"),
      encode_cursor_token(0, 0 - 1, 1, "TEXT"),
      [encode_cursor_token(0, 0, 1, "TEXT") EXCEPT !.v = 2] }

InitDynVal ==
    /\ wcfg = RetryConfig(3, 20, FALSE)
    /\ IdleRetry
    /\ IdleHttp
    /\ IdleArt
    /\ IdleCache
    /\ IdleParse
    /\ IdleCodec
    /\ IdleSub
    /\ feed \in ValFeeds
    /\ req \in [ user_id : {1, 2}, limit : 0..2, dynamic_type : ValTypeInputs,
                 cursor : ValCursors, offset : {None, FIRST_PAGE_CURSOR, 1} ]
    /\ dpc = "idle"
    /\ loc = NoLoc
    /\ fetched = <<>>
    /\ cpc = "start"
    /\ collected = <<>>
    /\ exits = {}
    /\ resp = NoResp

SpecDynVal == InitDynVal /\ [][NextDyn]_vars

\* encode_cursor_token, then decode_cursor_token for an expected user and
\* filter.
InitCodec ==
    /\ wcfg = RetryConfig(3, 20, FALSE)
    /\ IdleRetry
    /\ IdleHttp
    /\ IdleArt
    /\ IdleCache
    /\ IdleParse
    /\ IdleDyn
    /\ IdleSub
    /\ cin \in [ api_cursor : {None, 0, 1, 2}, skip_matches : 0..MaxSkip,
                 user_id : {1, 2}, dynamic_type : VALID_TYPES,
                 expected_user_id : {1, 2}, expected_dynamic_type : VALID_TYPES ]
    /\ ctoken = NoCursor
    /\ cresult = NotDecoded

NextCodec ==
    \/ CodecEncode
    \/ CodecDecode

SpecCodec == InitCodec /\ [][NextCodec]_vars

\* _collect_subtitles called in every mode, with budgets around the lengths
\* of the texts, and 0.
InitSub ==
    /\ wcfg = RetryConfig(3, 20, FALSE)
    /\ IdleRetry
    /\ IdleHttp
    /\ IdleArt
    /\ IdleCache
    /\ IdleParse
    /\ IdleDyn
    /\ IdleCodec
    /\ sin \in [ subtitle_mode : {<<"minimal">>, <<"Minimal", " ">>, <<"smart">>, <<"full">>},
                 subtitle_lang : {<<"auto">>, <<"zh">>},
                 subtitle_max_chars : 0..MaxChars,
                 pages : SubPageInputs ]
    /\ spc = "start"
    /\ ptask = <<>>
    /\ pres = <<>>
    /\ cands = <<>>
    /\ serrors = <<>>
    /\ ttask = <<>>
    /\ tres = <<>>
    /\ kept = <<>>
    /\ sreason = NoReason
    /\ sout = NoSubResponse
    /\ mcalls = <<>>
    /\ tcalls = <<>>
    /\ pdone = <<>>
    /\ tdone = <<>>

NextSub ==
    \/ SubStart
    \/ MetaAcquire
    \/ MetaComplete
    \/ PagesGathered
    \/ TextAcquire
    \/ TextComplete
    \/ SubMerge

SpecSub == InitSub /\ [][NextSub]_vars

\* _collect_subtitles with more tasks than the semaphore admits: full mode
\* over one page with many tracks, smart mode over many pages.
ManyTracks(n) ==
    <<SubPage(1, "ok", [k \in 1..n |->
                           SubtitleItem(<<"en">>, [kind |-> "ok", body |-> <<"a">>])])>>

ManyPages(n) ==
    [i \in 1..n |->
        SubPage(i, "ok", <<SubtitleItem(<<"en">>, [kind |-> "ok", body |-> <<"a">>])>>)]

InitSubConc ==
    /\ wcfg = RetryConfig(3, 20, FALSE)
    /\ IdleRetry
    /\ IdleHttp
    /\ IdleArt
    /\ IdleCache
    /\ IdleParse
    /\ IdleDyn
    /\ IdleCodec
    /\ sin \in { [subtitle_mode |-> <<"full">>, subtitle_lang |-> <<"auto">>,
                   subtitle_max_chars |-> MaxChars, pages |-> ManyTracks(n)] :
                     n \in SUBTITLE_FETCH_CONCURRENCY..MaxTasks }
               \cup
               { [subtitle_mode |-> <<"smart">>, subtitle_lang |-> <<"auto">>,
                   subtitle_max_chars |-> MaxChars, pages |-> ManyPages(n)] :
                     n \in SUBTITLE_FETCH_CONCURRENCY..MaxTasks }
    /\ spc = "start"
    /\ ptask = <<>>
    /\ pres = <<>>
    /\ cands = <<>>
    /\ serrors = <<>>
    /\ ttask = <<>>
    /\ tres = <<>>
    /\ kept = <<>>
    /\ sreason = NoReason
    /\ sout = NoSubResponse
    /\ mcalls = <<>>
    /\ tcalls = <<>>
    /\ pdone = <<>>
    /\ tdone = <<>>

SpecSubConc == InitSubConc /\ [][NextSub]_vars

\* fetch_user_dynamics with every filter, and one name that is none, over
\* feeds of two pages of two cards with discriminators of every kind.
FilterCodes == {1, 2, 4, 8, 64, 512}
FilterFeeds ==
    { ChainFeed(<<p1, p2>>) : p1 \in [1..2 -> FilterCodes], p2 \in [1..2 -> FilterCodes] }
FilterTypeInputs == { TypeChars[t] : t \in VALID_TYPES } \cup { <<"B", "A", "D">> }

InitDynTypes ==
    /\ wcfg = RetryConfig(3, 20, FALSE)
    /\ IdleRetry
    /\ IdleHttp
    /\ IdleArt
    /\ IdleCache
    /\ IdleParse
    /\ IdleCodec
    /\ IdleSub
    /\ feed \in FilterFeeds
    /\ req \in [ user_id : {1}, limit : 1..MaxLimit, dynamic_type : FilterTypeInputs,
                 cursor : {NoCursor}, offset : {FIRST_PAGE_CURSOR} ]
    /\ dpc = "idle"
    /\ loc = NoLoc
    /\ fetched = <<>>
    /\ cpc = "start"
    /\ collected = <<>>
    /\ exits = {}
    /\ resp = NoResp

SpecDynTypes == InitDynTypes /\ [][NextDyn]_vars

\* One call of fetch_user_dynamics over an upstream whose pages link anywhere:
\* to no page, to themselves, back or forward, with or without has_more, and
\* with or without cards. The call starts at either page, by offset or by a
\* cursor, with or without a skip.
LoopOffsets == {0, 1}
LoopShapes == { <<>>, <<8>>, <<4>>, <<4, 4>> }
LoopPages ==
    [ shape : LoopShapes, has_more : BOOLEAN, next_offset : {None} \cup LoopOffsets ]

LoopFeed(pages) ==
    [ i \in 1..Len(pages) |->
        [ cards       |-> [k \in 1..Len(pages[i].shape) |->
                              PlainCard(<<i, k>>, pages[i].shape[k])],
          has_more    |-> pages[i].has_more,
          next_offset |-> pages[i].next_offset ] ]

LoopStarts ==
    { [cursor |-> NoCursor, offset |-> o] : o \in LoopOffsets }
    \cup
    { [cursor |-> encode_cursor_token(o, k, 1, "TEXT"), offset |-> FIRST_PAGE_CURSOR] :
        o \in LoopOffsets, k \in 0..1 }

InitDynLoop ==
    /\ wcfg = RetryConfig(3, 20, FALSE)
    /\ IdleRetry
    /\ IdleHttp
    /\ IdleArt
    /\ IdleCache
    /\ IdleParse
    /\ IdleCodec
    /\ IdleSub
    /\ feed \in { LoopFeed(pages) : pages \in [1..Cardinality(LoopOffsets) -> LoopPages] }
    /\ \E limit \in 1..MaxLimit, start \in LoopStarts :
           req = [ user_id |-> 1, limit |-> limit, dynamic_type |-> TypeChars["TEXT"],
                   cursor |-> start.cursor, offset |-> start.offset ]
    /\ dpc = "idle"
    /\ loc = NoLoc
    /\ fetched = <<>>
    /\ cpc = "start"
    /\ collected = <<>>
    /\ exits = {}
    /\ resp = NoResp

NextDynLoop ==
    \/ ClientFirstCall
    \/ WrapperSleep
    \/ DynEnterOk
    \/ DynPageContinue
    \/ DynPageReturn
    \/ ClientReceives

SpecDynLoop == InitDynLoop /\ [][NextDynLoop]_vars

\* One call over the upstreams of SpecDynLoop and over chains one page longer
\* than MAX_SCAN_PAGES and over cycles, so that every way out of the page loop
\* is taken.
LongChains == { ChainFeed([i \in 1..(MAX_SCAN_PAGES + 1) |-> sh]) : sh \in RunShapes }

\* Upstreams of three pages whose second and third page link to each other:
\* offset 0 is false as a next_offset, so a cycle needs two other offsets.
CyclePage(shape, next_offset) == [shape |-> shape, has_more |-> TRUE, next_offset |-> next_offset]
CycleFeeds ==
    { LoopFeed(<<CyclePage(s1, 1), CyclePage(s2, 2), CyclePage(s3, 1)>>) :
        s1 \in LoopShapes, s2 \in LoopShapes \ {<<>>}, s3 \in LoopShapes \ {<<>>} }

InitDynExits ==
    /\ wcfg = RetryConfig(3, 20, FALSE)
    /\ IdleRetry
    /\ IdleHttp
    /\ IdleArt
    /\ IdleCache
    /\ IdleParse
    /\ IdleCodec
    /\ IdleSub
    /\ feed \in { LoopFeed(pages) : pages \in [1..Cardinality(LoopOffsets) -> LoopPages] }
                \cup LongChains \cup CycleFeeds
    /\ \E limit \in 1..MaxLimit, start \in LoopStarts :
           req = [ user_id |-> 1, limit |-> limit, dynamic_type |-> TypeChars["TEXT"],
                   cursor |-> start.cursor, offset |-> start.offset ]
    /\ dpc = "idle"
    /\ loc = NoLoc
    /\ fetched = <<>>
    /\ cpc = "start"
    /\ collected = <<>>
    /\ exits = {}
    /\ resp = NoResp

SpecDynExits == InitDynExits /\ [][NextDynLoop]_vars

\* A caller that follows next_cursor to the end over upstreams without a
\* cycle: two pages that link forward or nowhere, and chains one page longer
\* than MAX_SCAN_PAGES. The event loop runs every step that can be taken.
AcyclicFeeds ==
    { LoopFeed(pages) : pages \in { p \in [1..Cardinality(LoopOffsets) -> LoopPages] :
                                      p[1].next_offset # 0 /\ p[2].next_offset = None } }
    \cup LongChains

InitDynLive ==
    /\ wcfg = RetryConfig(3, 20, FALSE)
    /\ IdleRetry
    /\ IdleHttp
    /\ IdleArt
    /\ IdleCache
    /\ IdleParse
    /\ IdleCodec
    /\ IdleSub
    /\ feed \in AcyclicFeeds
    /\ req \in [ user_id : {1}, limit : 1..MaxLimit, dynamic_type : {TypeChars["TEXT"]},
                 cursor : {NoCursor}, offset : {FIRST_PAGE_CURSOR} ]
    /\ dpc = "idle"
    /\ loc = NoLoc
    /\ fetched = <<>>
    /\ cpc = "start"
    /\ collected = <<>>
    /\ exits = {}
    /\ resp = NoResp

NextDynLive ==
    \/ ClientFirstCall
    \/ ClientFollowsCursor
    \/ WrapperSleep
    \/ DynEnterOk
    \/ DynPageContinue
    \/ DynPageReturn
    \/ ClientReceives

\* One call over upstreams of two linked pages, started by offset or by
\* cursor, in which any page fetch of any attempt may fail with an error the
\* wrapper retries.
FailFeeds ==
    { LoopFeed(<<CyclePage(s1, 1), p2>>) :
        s1 \in LoopShapes, p2 \in { p \in LoopPages : p.next_offset = None } }

InitDynFail ==
    /\ wcfg = RetryConfig(3, 20, FALSE)
    /\ IdleRetry
    /\ IdleHttp
    /\ IdleArt
    /\ IdleCache
    /\ IdleParse
    /\ IdleCodec
    /\ IdleSub
    /\ feed \in FailFeeds
    /\ \E limit \in 1..MaxLimit, start \in LoopStarts :
           req = [ user_id |-> 1, limit |-> limit, dynamic_type |-> TypeChars["TEXT"],
                   cursor |-> start.cursor, offset |-> start.offset ]
    /\ dpc = "idle"
    /\ loc = NoLoc
    /\ fetched = <<>>
    /\ cpc = "start"
    /\ collected = <<>>
    /\ exits = {}
    /\ resp = NoResp

NextDynFail ==
    \/ ClientFirstCall
    \/ WrapperSleep
    \/ DynEnterOk
    \/ DynPageContinue
    \/ DynPageReturn
    \/ DynPageFails
    \/ ClientReceives

SpecDynFail == InitDynFail /\ [][NextDynFail]_vars

\* Up to MaxRequests requests that call get_user_id_by_username or
\* fetch_user_info, interleaved at their awaits, over empty caches.
InitCache ==
    /\ wcfg = RetryConfig(3, 20, FALSE)
    /\ IdleRetry
    /\ IdleHttp
    /\ IdleArt
    /\ IdleCache
    /\ IdleParse
    /\ IdleDyn
    /\ IdleCodec
    /\ IdleSub

NextCache ==
    \/ \E r \in Requests : CachedLookup(r)
    \/ \E i \in 1..Len(ctasks) : CachedTaskAttempt(i)
    \/ \E r \in Requests : CachedCallReturns(r)
    \/ \E fn \in CachedFunctions, key \in CacheKeys : CacheTtlExpires(fn, key)

SpecCache == InitCache /\ [][NextCache]_vars

SpecDynLive == InitDynLive /\ [][NextDynLive]_vars /\ WF_vars(NextDynLive)

\* The aggregator in smart mode over one page of up to MaxLangTracks tracks
\* in languages of every kind, for requests of every kind.
TrackLanguages ==
    { <<"zh", "-", "CN">>, <<"zh", "-", "Hant">>, <<"EN">>, <<"ja">>, <<"zh">>, <<>> }
RequestedLanguages ==
    { <<"zh">>, <<" ", "ZH", "-", "CN">>, <<"zh", "-", "Hant", "-", "x">>, <<"ko">>, <<"en">>,
      <<"AUTO">> }

LanguagePage(lans) ==
    <<SubPage(1, "ok", [k \in 1..Len(lans) |->
                           SubtitleItem(lans[k], [kind |-> "ok", body |-> <<"a">>])])>>

InitSubLang ==
    /\ wcfg = RetryConfig(3, 20, FALSE)
    /\ IdleRetry
    /\ IdleHttp
    /\ IdleArt
    /\ IdleCache
    /\ IdleParse
    /\ IdleDyn
    /\ IdleCodec
    /\ sin \in { [subtitle_mode |-> <<"smart">>, subtitle_lang |-> lang,
                  subtitle_max_chars |-> MaxChars, pages |-> LanguagePage(lans)] :
                    lang \in RequestedLanguages,
                    lans \in UNION { [1..n -> TrackLanguages] : n \in 1..MaxLangTracks } }
    /\ spc = "start"
    /\ ptask = <<>>
    /\ pres = <<>>
    /\ cands = <<>>
    /\ serrors = <<>>
    /\ ttask = <<>>
    /\ tres = <<>>
    /\ kept = <<>>
    /\ sreason = NoReason
    /\ sout = NoSubResponse
    /\ mcalls = <<>>
    /\ tcalls = <<>>
    /\ pdone = <<>>
    /\ tdone = <<>>

SpecSubLang == InitSubLang /\ [][NextSub]_vars

\* fetch_article_content for an article whose get_info returns a mapping
\* with or without a title, or no mapping; each upstream call may return or
\* raise.
InitArt ==
    /\ wcfg = RetryConfig(3, 20, FALSE)
    /\ IdleRetry
    /\ IdleHttp
    /\ IdleCache
    /\ IdleParse
    /\ IdleDyn
    /\ IdleCodec
    /\ IdleSub
    /\ ain \in { [is_dict |-> TRUE, title |-> "demo article"],
                 [is_dict |-> TRUE, title |-> "None"],
                 [is_dict |-> FALSE, title |-> "None"] }
    /\ apc = "start"
    /\ acalls = <<>>
    /\ aout = NoArticleOut

NextArt ==
    \/ ArtStart
    \/ WrapperSleep
    \/ ArtGetInfo
    \/ ArtFetchContent
    \/ ArtMarkdown

SpecArt == InitArt /\ [][NextArt]_vars

\* The module after import: no client yet, and any sequence of up to MaxOps
\* calls of the two functions.
InitHttp ==
    /\ wcfg = RetryConfig(3, 20, FALSE)
    /\ IdleRetry
    /\ IdleArt
    /\ IdleCache
    /\ IdleParse
    /\ IdleDyn
    /\ IdleCodec
    /\ IdleSub
    /\ http_client = None
    /\ is_closed = <<>>
    /\ hist = <<>>
    /\ closing = <<>>

NextHttp ==
    \/ get_shared_http_client
    \/ close_shared_http_client

SpecHttp == InitHttp /\ [][NextHttp]_vars

\* The two functions called by coroutines of one event loop: a close may be
\* suspended at its await while gets and other closes run.
NextHttpConc ==
    \/ get_shared_http_client
    \/ CloseBegins
    \/ \E k \in 1..Len(closing) : CloseCompletes(k)

SpecHttpConc == InitHttp /\ [][NextHttpConc]_vars

\* decode_cursor_token called with tokens of every kind, made by encode or
\* not: empty, not decodable, no object, and objects with any version, user,
\* filter and skip value.
CraftedTokens ==
    { [NoCursor EXCEPT !.kind = "empty"], JunkCursor, [NoCursor EXCEPT !.kind = "nondict"] }
    \cup { tok \in [ kind : {"json"}, v : {CURSOR_VERSION, CURSOR_VERSION + 1}, u : {1, 2},
                     t : {"ALL", "TEXT"}, a : {None, 0, 1}, s : {0 - 1, 0, 1},
                     st : SkipTypes ] :
             tok.st = "bool" => tok.s \in {0, 1} }

InitDecode ==
    /\ wcfg = RetryConfig(3, 20, FALSE)
    /\ IdleRetry
    /\ IdleHttp
    /\ IdleArt
    /\ IdleCache
    /\ IdleParse
    /\ IdleDyn
    /\ IdleSub
    /\ ctoken \in CraftedTokens
    /\ cin \in [ api_cursor : {None}, skip_matches : {0}, user_id : {0}, dynamic_type : {""},
                 expected_user_id : {1, 2}, expected_dynamic_type : {"ALL", "TEXT"} ]
    /\ cresult = NotDecoded

NextDecode == CodecDecode

SpecDecode == InitDecode /\ [][NextDecode]_vars

\* parse_dynamic_item called with raw records of every kind: each known
\* discriminator, two unknown ones and none at all.
TypeCodeInputs == KnownTypeCodes \cup {3, 16, None}

PictureInputs ==
    { NoPictures, Pictures(<<>>), Pictures(<<"dict">>), Pictures(<<"other">>),
      Pictures(<<"dict", "dict", "other">>), Pictures(<<"other", "other">>) }

RawCards ==
    [ id : {<<1, 1>>}, type : TypeCodeInputs, pictures : PictureInputs,
      timestamp : TimestampValues,
      article_id : ArticleIdValues, content : ContentValues ]

InitParse ==
    /\ wcfg = RetryConfig(3, 20, FALSE)
    /\ IdleRetry
    /\ IdleHttp
    /\ IdleArt
    /\ IdleCache
    /\ IdleDyn
    /\ IdleCodec
    /\ IdleSub
    /\ pin \in RawCards
    /\ pout = NotParsed

NextParse == ParseItem

SpecParse == InitParse /\ [][NextParse]_vars

\* fetch_user_dynamics over feeds with cards of every kind: a first page of
\* up to MaxCards cards, and perhaps a second page with one plain card.
CardKinds ==
    { [PlainCard(<<0, 0>>, 4) EXCEPT !.timestamp = ts, !.content = c] :
          ts \in {"in_range", "beyond_time_t"}, c \in {"str", "number"} }
    \cup { PlainCard(<<0, 0>>, 8),
           [PlainCard(<<0, 0>>, 64) EXCEPT !.article_id = "inf"],
           [PlainCard(<<0, 0>>, 4) EXCEPT !.timestamp = "inf"] }

CardFeed(kinds, more) ==
    IF more
    THEN << [ cards       |-> [k \in 1..Len(kinds) |-> [kinds[k] EXCEPT !.id = <<1, k>>]],
              has_more    |-> TRUE,
              next_offset |-> 1 ],
            [ cards |-> <<PlainCard(<<2, 1>>, 4)>>, has_more |-> FALSE, next_offset |-> None ] >>
    ELSE << [ cards       |-> [k \in 1..Len(kinds) |-> [kinds[k] EXCEPT !.id = <<1, k>>]],
              has_more    |-> FALSE,
              next_offset |-> None ] >>

InitDynCards ==
    /\ wcfg = RetryConfig(3, 20, FALSE)
    /\ IdleRetry
    /\ IdleHttp
    /\ IdleArt
    /\ IdleCache
    /\ IdleParse
    /\ IdleCodec
    /\ IdleSub
    /\ feed \in { CardFeed(kinds, more) :
                    kinds \in UNION { [1..n -> CardKinds] : n \in 1..MaxCards },
                    more \in BOOLEAN }
    /\ req \in [ user_id : {1}, limit : 1..MaxLimit, dynamic_type : ChainTypeInputs,
                 cursor : {NoCursor}, offset : {FIRST_PAGE_CURSOR} ]
    /\ dpc = "idle"
    /\ loc = NoLoc
    /\ fetched = <<>>
    /\ cpc = "start"
    /\ collected = <<>>
    /\ exits = {}
    /\ resp = NoResp

NextDynCards ==
    \/ ClientFirstCall
    \/ ClientNextCall
    \/ WrapperSleep
    \/ DynEnterOk
    \/ DynPageContinue
    \/ DynPageReturn
    \/ DynPageRaises
    \/ ClientReceives

SpecDynCards == InitDynCards /\ [][NextDynCards]_vars

\* fetch_user_dynamics with the four filters that name one type, over feeds
\* of cards with the codes of these types; the cards of code 2 come with
\* pictures, with an empty list and with no list.
NamedFilters == {"VIDEO", "ARTICLE", "DRAW", "TEXT"}
PaddedDraw == <<" ", "d", "r", "a", "w", " ">>
NamedTypeInputs == { TypeChars[t] : t \in NamedFilters } \cup { PaddedDraw }

NamedCards ==
    { PlainCard(<<0, 0>>, t) : t \in {4, 8, 64} }
    \cup { [PlainCard(<<0, 0>>, 2) EXCEPT !.pictures = p] :
             p \in { NoPictures, Pictures(<<>>), Pictures(<<"dict">>) } }

InitDynNamed ==
    /\ wcfg = RetryConfig(3, 20, FALSE)
    /\ IdleRetry
    /\ IdleHttp
    /\ IdleArt
    /\ IdleCache
    /\ IdleParse
    /\ IdleCodec
    /\ IdleSub
    /\ feed \in { CardFeed(kinds, more) :
                    kinds \in [1..2 -> NamedCards], more \in BOOLEAN }
    /\ req \in [ user_id : {1}, limit : 1..MaxLimit, dynamic_type : NamedTypeInputs,
                 cursor : {NoCursor}, offset : {FIRST_PAGE_CURSOR} ]
    /\ dpc = "idle"
    /\ loc = NoLoc
    /\ fetched = <<>>
    /\ cpc = "start"
    /\ collected = <<>>
    /\ exits = {}
    /\ resp = NoResp

SpecDynNamed == InitDynNamed /\ [][NextDyn]_vars

-----------------------------------------------------------------------------
(* Claims about the retry decorator, checked under SpecRetry *)

\* The claim's notion of a retryable failure: a configured API code or a
\* transport exception.
RetryableByKind(exc) ==
    \/ exc.cls = "ApiException" /\ exc.code \in DEFAULT_RETRYABLE_CODES
    \/ exc.cls = "RequestError"

\* C4: when the wrapped function raises an exception that is neither a
\* retryable API code nor a transport exception, it has been invoked exactly
\* once, nothing was slept, and that exception is raised to the caller, with
\* return_default or without.
C4_NonRetryableRaisesAtOnce ==
    (Len(outcomes) >= 1 /\ ~RetryableByKind(outcomes[1]))
        => /\ calls = 1
           /\ sleeps = <<>>
           /\ wpc = "done"
           /\ wresult = [kind |-> "raise", exc |-> outcomes[1]]

\* C5: nothing is slept before the first invocation, and a call that fails k
\* times and then succeeds has invoked the function k + 1 times, slept k
\* times and returned the value.
C5_SleepsOnlyBeforeRetries ==
    /\ (calls = 0 => sleeps = <<>>)
    /\ (wpc = "done" /\ wresult.kind = "value")
           => /\ calls = Len(outcomes) + 1
              /\ Len(sleeps) = Len(outcomes)

\* Every invocation so far failed with an exception the wrapper retries.
AllFailedRetryable ==
    /\ calls > 0
    /\ Len(outcomes) = calls
    /\ \A i \in 1..Len(outcomes) : CaughtRetryable(wcfg, outcomes[i])

\* C6: the function is never invoked more than max_retries + 1 times, and
\* when every invocation failed with a retryable error the wrapper ends after
\* exactly max_retries + 1 invocations, returning the default if
\* return_default is set and raising the last exception otherwise.
C6_ExhaustionAfterMaxRetries ==
    /\ calls <= wcfg.max_retries + 1
    /\ (wpc = "done" /\ AllFailedRetryable)
           => /\ calls = wcfg.max_retries + 1
              /\ wresult = IF wcfg.return_default
                           THEN [kind |-> "default", exc |-> NoException]
                           ELSE [kind |-> "raise", exc |-> outcomes[Len(outcomes)]]

C6_Witness ==
    /\ wpc = "done"
    /\ AllFailedRetryable
    /\ wcfg.max_retries >= 2
    /\ wcfg.return_default
    /\ wresult.kind = "default"

\* C8: once begin_request has run, retry_count is the number of retries the
\* wrapped call has made, that is its invocations after the first.
C8_RetryCountCountsRetries ==
    (metrics.request_id # "None" /\ calls >= 1)
        => metrics.retry_count = calls - 1

-----------------------------------------------------------------------------
(* Claims about the cursor codec, checked under SpecCodec *)

\* C2: a token encoded for (user u, filter t) and decoded for another user
\* raises the user-mismatch error, whatever the expected filter; decoded for
\* user u and another filter it raises the filter-mismatch error; in
\* neither case a pair is returned.
C2_CursorBoundToUserAndFilter ==
    cresult # NotDecoded
        => /\ cin.expected_user_id # cin.user_id
                => cresult = Raise(ValueError(<<"Cursor does not belong to this user">>))
           /\ (cin.expected_user_id = cin.user_id
               /\ cin.expected_dynamic_type # cin.dynamic_type)
                => cresult = Raise(ValueError(<<"Cursor does not match dynamic_type">>))

C2_Witness ==
    /\ cresult = Raise(ValueError(<<"Cursor does not belong to this user">>))
    /\ cin.expected_user_id # cin.user_id
    /\ cin.expected_dynamic_type # cin.dynamic_type
    /\ ctoken.kind = "json"

-----------------------------------------------------------------------------
(* Claims about fetch_user_dynamics *)

\* The ids of the cards of pages i.. that match the filter, in upstream order.
RECURSIVE MatchingIdsFrom(_, _)
MatchingIdsFrom(i, dynamic_type) ==
    IF i > Len(feed) THEN <<>>
    ELSE LET m == SelectSeq(feed[i].cards,
                            LAMBDA c : is_dynamic_type_match(c.type, dynamic_type))
         IN  [k \in 1..Len(m) |-> m[k].id] \o MatchingIdsFrom(i + 1, dynamic_type)

IsPrefix(s, t) == Len(s) <= Len(t) /\ s = SubSeq(t, 1, Len(s))

\* The filter of the calls, once a call has normalized it.
ActiveFilter == IF loc.dynamic_type # "" THEN loc.dynamic_type ELSE resp.filter_type

\* C1, as claimed: following next_cursor from the first page until has_more
\* is false yields exactly the matching items of the feed, in upstream order.
C1_AllMatchingItemsReturned ==
    cpc = "finished" => collected = MatchingIdsFrom(1, resp.filter_type)

\* No response so far was ended by the page bound.
NotCutShort == "max_pages" \notin exits

\* C1, amended: over a feed whose pages before the last all hold a card, the
\* items returned so far are always the first matching items of the feed, in
\* upstream order and without repetition, and when has_more becomes false
\* they are all of them, unless a call was ended by the MAX_SCAN_PAGES bound.
C1_MatchingItemsInOrder ==
    /\ ActiveFilter # "" => IsPrefix(collected, MatchingIdsFrom(1, ActiveFilter))
    /\ (cpc = "finished" /\ NotCutShort)
           => collected = MatchingIdsFrom(1, resp.filter_type)

C1_Witness ==
    /\ cpc = "finished"
    /\ NotCutShort
    /\ {"limit_same_page", "limit_next_page", "end"} \subseteq exits
    /\ Len(collected) >= 4
    /\ collected = MatchingIdsFrom(1, resp.filter_type)

\* C3: a call with a cursor and an offset other than 0 and None fetches no
\* page and ends with a ValueError, which says that the two cannot be
\* combined when the limit and the dynamic_type are valid; with offset 0 or
\* None that error is not raised.
CombinedError == ValueError(<<"cursor and offset cannot be combined">>)

C3_CursorExcludesOffset ==
    (cpc \in {"waiting", "failed"} /\ HasCursor(req.cursor))
        => IF req.offset \notin {None, FIRST_PAGE_CURSOR}
           THEN /\ fetched = <<>>
                /\ dpc = "idle"
                /\ wpc = "done" => /\ wresult.kind = "raise"
                                   /\ wresult.exc.cls = "ValueError"
                /\ (wpc = "done" /\ req.limit > 0 /\ normalize_dynamic_type(req.dynamic_type).ok)
                       => wresult.exc = CombinedError
           ELSE wresult.exc # CombinedError

C3_Witness ==
    /\ cpc = "failed"
    /\ HasCursor(req.cursor)
    /\ req.offset = 1
    /\ wresult = [kind |-> "raise", exc |-> CombinedError]
    /\ fetched = <<>>

\* C7: when the validation of fetch_user_dynamics fails, the function has
\* been invoked exactly once and the wrapper has raised that ValueError.
C7_ValidationErrorNeverRetried ==
    (cpc \in {"waiting", "failed"} /\ calls >= 1 /\ ~DynEnter(req).ok)
        => /\ calls = 1
           /\ wpc = "done"
           /\ wresult = [kind |-> "raise", exc |-> DynEnter(req).exc]

-----------------------------------------------------------------------------
(* Claims about the subtitle aggregator, checked under SpecSub *)

\* The text the fetch returned for the i-th kept track.
FetchedText(i) == tres[kept[i]].text

\* C9, as claimed: in smart and full mode, for any max_chars, returned_chars
\* is the length of full_text, separators included, and is at most max_chars.
C9_ReturnedCharsWithinMaxChars ==
    (spc = "done" /\ sout.mode \in {"smart", "full"})
        => /\ sout.returned_chars = Len(sout.full_text)
           /\ Len(sout.full_text) <= sin.subtitle_max_chars

\* C9, amended: in smart and full mode returned_chars is the length of
\* full_text, separators included, and is at most max_chars when max_chars is
\* at least 1, and at most DEFAULT_SUBTITLE_MAX_CHARS when it is below 1.
C9_ReturnedCharsWithinBudget ==
    (spc = "done" /\ sout.mode \in {"smart", "full"})
        => /\ sout.returned_chars = Len(sout.full_text)
           /\ sout.full_text = Join(SelectSeq([i \in 1..Len(sout.tracks) |->
                                                 sout.tracks[i].text],
                                              LAMBDA t : t # <<>>))
           /\ Len(sout.full_text) <= IF sin.subtitle_max_chars >= 1
                                     THEN sin.subtitle_max_chars
                                     ELSE DEFAULT_SUBTITLE_MAX_CHARS

C9_Witness ==
    /\ spc = "done"
    /\ sout.mode = "full"
    /\ sout.truncated
    /\ \E i \in 1..Len(sout.full_text) : sout.full_text[i] = "\n"
    /\ Len(sout.full_text) = sin.subtitle_max_chars

\* C10: truncated is true exactly when the text of some kept track differs
\* from the text fetched for it, that is when the budget shortened or dropped
\* it; a text that fits exactly and an empty text do not set it.
C10_TruncatedIffTextCut ==
    spc = "done"
        => (sout.truncated
            <=> \E i \in 1..Len(sout.tracks) : sout.tracks[i].text # FetchedText(i))

C10_Witness ==
    /\ spc = "done"
    /\ sout.truncated
    /\ Len(sout.tracks) = 3
    /\ sout.tracks[1].text = FetchedText(1)
    /\ Len(sout.tracks[1].text) = sin.subtitle_max_chars
    /\ FetchedText(2) = <<>>
    /\ sout.tracks[3].text = <<>>
    /\ FetchedText(3) # <<>>

\* C11: in every response dropped_tracks is the number of candidates
\* discovered minus the number of tracks returned, and track_count is the
\* number of tracks returned; a call that discovers nothing counts none.
C11_DroppedTracksIsCandidatesMinusTracks ==
    spc = "done"
        => /\ sout.dropped_tracks = Len(cands) - Len(sout.tracks)
           /\ sout.track_count = Len(sout.tracks)

C11_Witness ==
    /\ spc = "done"
    /\ sout.mode = "smart"
    /\ Len(cands) = 3
    /\ sout.dropped_tracks = 2
    /\ sout.track_count = 1

\* The caller asked for the minimal mode, in any case and with or without
\* blanks around it.
MinimalRequested == Lower(Strip(sin.subtitle_mode)) = <<"minimal">>

\* C12: in minimal mode no get_subtitle call and no text fetch is ever
\* issued, and the response has no track, an empty full_text and the fixed
\* fallback_reason, whatever the pages are.
C12_MinimalMakesNoUpstreamCall ==
    MinimalRequested
        => /\ \A i \in DOMAIN mcalls : mcalls[i] = 0
           /\ \A j \in DOMAIN tcalls : tcalls[j] = 0
           /\ InFlight = 0
           /\ spc \in {"start", "done"}
           /\ spc = "done"
                => /\ sout.mode = "minimal"
                   /\ sout.tracks = <<>>
                   /\ sout.full_text = <<>>
                   /\ sout.track_count = 0
                   /\ sout.fallback_reason.kind
                          = "subtitle metadata and text skipped by mode=minimal"

C12_Witness ==
    /\ spc = "done"
    /\ sin.subtitle_mode = <<"Minimal", " ">>
    /\ Len(sin.pages) = 2
    /\ Len(sin.pages[2].subtitles) = 2
    /\ sout.mode = "minimal"

\* The number of calls counted in c.
RECURSIVE SumSeq(_)
SumSeq(c) == IF c = <<>> THEN 0 ELSE Head(c) + SumSeq(Tail(c))

\* The candidate smart selects among those discovered.
SmartSelected == _select_smart_subtitle_candidate(cands, sin.subtitle_lang).index

RECURSIVE Discovered(_)
Discovered(pages) ==
    IF pages = <<>> THEN <<>>
    ELSE LET page == Head(pages)
             items == IF page.cid # None /\ page.meta = "ok"
                      THEN [k \in 1..Len(page.subtitles) |->
                               [cid |-> page.cid, lan |-> page.subtitles[k].lan,
                                url |-> page.subtitles[k].subtitle_url]]
                      ELSE <<>>
         IN  items \o Discovered(Tail(pages))

\* The text at the end of a URL, empty when the fetch fails.
BodyOf(url) == IF url.kind = "ok" THEN url.body ELSE <<>>

\* The first n characters of s, without a separator at the end.
CutAt(s, n) ==
    LET t == SubSeq(s, 1, Min(n, Len(s)))
    IN  IF t # <<>> /\ t[Len(t)] = "\n" THEN SubSeq(t, 1, Len(t) - 1) ELSE t

\* C14: in full mode, whatever the order the fetches completed in, tracks
\* lists the discovered items in discovery order, each with a prefix of its
\* own text, and full_text is the texts joined in that order and cut at the
\* budget.
C14_FullModeKeepsDiscoveryOrder ==
    (spc = "done" /\ sout.mode = "full")
        => LET d == Discovered(sin.pages)
               bodies == SelectSeq([k \in 1..Len(d) |-> BodyOf(d[k].url)],
                                   LAMBDA b : b # <<>>)
               budget == IF sin.subtitle_max_chars >= 1 THEN sin.subtitle_max_chars
                         ELSE DEFAULT_SUBTITLE_MAX_CHARS
           IN  /\ Len(sout.tracks) = Len(d)
               /\ \A k \in 1..Len(d) :
                    /\ sout.tracks[k].cid = d[k].cid
                    /\ sout.tracks[k].lan = d[k].lan
                    /\ IsPrefix(sout.tracks[k].text, BodyOf(d[k].url))
               /\ sout.full_text = CutAt(Join(bodies), budget)

C14_Witness ==
    /\ spc = "done"
    /\ sout.mode = "full"
    /\ pdone = <<2, 1>>
    /\ tdone = <<3, 1, 2>>
    /\ sout.truncated
    /\ \A k \in 1..2 : sout.tracks[k].text # <<>>
    /\ BodyOf(Discovered(sin.pages)[3].url) # <<>>

\* A call that has not returned has a task that can enter the semaphore or
\* complete, or all its tasks are done and their results can be gathered.
SubCanGoOn ==
    LET tasks == IF spc = "meta" THEN ptask ELSE ttask
    IN  \/ \E i \in DOMAIN tasks : tasks[i] = "running"
        \/ SemaphoreFree /\ \E i \in DOMAIN tasks : tasks[i] = "waiting"
        \/ \A i \in DOMAIN tasks : tasks[i] \in {"none", "done"}

-----------------------------------------------------------------------------
(* Claims about the semaphore, checked under SpecSubConc *)

\* The upstream calls in flight: get_subtitle calls, and text fetches of
\* candidates that have a URL.
UpstreamInFlight ==
    Cardinality({i \in DOMAIN ptask : ptask[i] = "running"})
    + Cardinality({j \in DOMAIN ttask :
                      ttask[j] = "running" /\ cands[j].subtitle_url.kind # "missing"})

\* C16: at most SUBTITLE_FETCH_CONCURRENCY upstream subtitle calls, get_subtitle
\* calls and text fetches together, are in flight at any moment.
C16_AtMostFourCallsInFlight == UpstreamInFlight <= SUBTITLE_FETCH_CONCURRENCY

C16_Witness ==
    /\ UpstreamInFlight = SUBTITLE_FETCH_CONCURRENCY
    /\ \E j \in DOMAIN ttask : ttask[j] = "waiting"
    /\ Len(sin.pages[1].subtitles) > SUBTITLE_FETCH_CONCURRENCY

-----------------------------------------------------------------------------
(* Claims about parse_dynamic_item, checked under SpecParse and SpecDynCards *)

ParsedTypeNames ==
    { "REPOST", "DRAW", "TEXT", "VIDEO", "ARTICLE", "CHARGE_QA", "ACTIVITY", "PARSE_ERROR" }
    \cup { UnknownTypeName(code) : code \in TypeCodeInputs \ KnownTypeCodes }

\* C17: parse_dynamic_item never raises for any raw record: it returns a
\* record whose type is one of REPOST, DRAW, TEXT, VIDEO, ARTICLE, CHARGE_QA,
\* ACTIVITY, UNKNOWN_<code> or PARSE_ERROR, and a discriminator outside the
\* known set gives UNKNOWN_<code>.
C17_ParseNeverRaises ==
    pout # NotParsed =>
        /\ pout.ok
        /\ pout.value.type \in ParsedTypeNames
        /\ pin.type \notin KnownTypeCodes => pout.value.type = UnknownTypeName(pin.type)

\* The matching cards of the first page that cannot be parsed or converted.
BadCards ==
    { k \in 1..Len(feed[1].cards) :
        /\ is_dynamic_type_match(feed[1].cards[k].type, normalize_dynamic_type(req.dynamic_type).value)
        /\ ~ProcessCard(feed[1].cards[k]).ok }

MatchingCards ==
    { k \in 1..Len(feed[1].cards) :
        is_dynamic_type_match(feed[1].cards[k].type, normalize_dynamic_type(req.dynamic_type).value) }

\* The first call has come back to the caller, and its limit let it scan the
\* whole first page.
FirstCallOver ==
    /\ wpc = "done"
    /\ cpc = "waiting"
    /\ req.cursor = NoCursor
    /\ req.limit >= Len(feed[1].cards)

\* C18: a single feed item that cannot be parsed or converted does not fail
\* the fetch_user_dynamics response: the other matching items of the page
\* are returned, and the bad item appears as a PARSE_ERROR item.
C18_BadItemDoesNotFailResponse ==
    (FirstCallOver /\ Cardinality(BadCards) = 1) =>
        /\ wresult.kind = "value"
        /\ \A k \in MatchingCards :
               \E i \in 1..Len(resp.dynamics) :
                   /\ resp.dynamics[i].dynamic_id = <<1, k>>
                   /\ k \in BadCards => resp.dynamics[i].type = "PARSE_ERROR"

-----------------------------------------------------------------------------
(* Claims about the page bound and the cursor codec *)

\* The attempt in progress has come back with the page bound passed.
StoppedByPageBound ==
    /\ dpc = "idle"
    /\ wpc = "done"
    /\ loc.scanned_pages > MAX_SCAN_PAGES

\* C19: one call of fetch_user_dynamics (one attempt) fetches at most
\* MAX_SCAN_PAGES upstream pages; if the loop would scan more, it stops and
\* returns has_more = false with next_cursor = null.
C19_AtMostMaxScanPagesFetched ==
    /\ Len(fetched) <= MAX_SCAN_PAGES
    /\ StoppedByPageBound =>
           /\ wresult.kind = "value"
           /\ ~resp.has_more
           /\ resp.next_cursor = NoCursor

C19_Witness == StoppedByPageBound /\ Len(fetched) = MAX_SCAN_PAGES

\* The token was decoded for the user and the filter it was encoded for.
DecodedForSame ==
    /\ cresult # NotDecoded
    /\ cin.expected_user_id = cin.user_id
    /\ cin.expected_dynamic_type = cin.dynamic_type

-----------------------------------------------------------------------------
(* Claims about decode_cursor_token on any token, checked under SpecDecode *)

Failed(msg) == cresult = Raise(ValueError(msg))

\* C21: decode_cursor_token never returns a result for a token that is
\* malformed, carries another version than the current one, or carries a
\* negative or non-integer skip count; a malformed token, a version
\* mismatch, a user mismatch and a filter mismatch are four failures with
\* four different reports.
C21_DecodeRejectsBadTokens ==
    cresult # NotDecoded =>
        /\ cresult.ok =>
               /\ ctoken.kind = "json"
               /\ ctoken.v = CURSOR_VERSION
               /\ ctoken.st = "int"
               /\ ctoken.s >= 0
        /\ ctoken.kind # "json" =>
               \/ Failed(<<"cursor cannot be empty">>)
               \/ Failed(<<"Invalid cursor format">>)
               \/ Failed(<<"Invalid cursor payload">>)
        /\ (ctoken.kind = "json" /\ ctoken.v # CURSOR_VERSION) =>
               Failed(<<"Unsupported cursor version">>)
        /\ (ctoken.kind = "json" /\ ctoken.v = CURSOR_VERSION
            /\ ctoken.u # cin.expected_user_id) =>
               Failed(<<"Cursor does not belong to this user">>)
        /\ (ctoken.kind = "json" /\ ctoken.v = CURSOR_VERSION
            /\ ctoken.u = cin.expected_user_id /\ ctoken.t # cin.expected_dynamic_type) =>
               Failed(<<"Cursor does not match dynamic_type">>)

-----------------------------------------------------------------------------
(* Claims about the shared HTTP client, checked under SpecHttp *)

\* C22: get_shared_http_client returns the same open client on successive
\* calls until close_shared_http_client is called; close closes that client;
\* the next get returns a new open client, distinct from every earlier one;
\* close with no client, or right after a close, changes nothing.
C22_SharedClientLifecycle ==
    \A i \in 1..Len(hist) :
        /\ hist[i].op = "get" =>
               /\ hist[i].open
               /\ (i > 1 /\ hist[i - 1].op = "get") => hist[i].client = hist[i - 1].client
               /\ (i = 1 \/ hist[i - 1].op = "close") =>
                      \A j \in 1..(i - 1) : hist[j].client # hist[i].client
        /\ hist[i].op = "close" =>
               /\ hist[i].client # None =>
                      /\ is_closed[hist[i].client]
                      /\ i > 1 /\ hist[i - 1].op = "get" /\ hist[i - 1].client = hist[i].client
               /\ (i = 1 \/ hist[i - 1].op = "close") =>
                      hist[i].client = None /\ ~hist[i].changed

\* get, get, close, get, close, close: the calls of the test, and one more
\* close.
C22_Witness ==
    /\ Len(hist) >= 6
    /\ [k \in 1..6 |-> hist[k].op] = <<"get", "get", "close", "get", "close", "close">>
    /\ hist[1].client = hist[2].client
    /\ hist[4].client # hist[1].client
    /\ is_closed[hist[1].client]

-----------------------------------------------------------------------------
(* Claims about the filter, checked under SpecDynTypes *)

\* The claim's table of the codes each filter takes.
FilterTakes(filter, code) ==
    CASE filter = "ALL"     -> code \in {1, 2, 4}
      [] filter = "ALL_RAW" -> TRUE
      [] filter = "VIDEO"   -> code = 8
      [] filter = "ARTICLE" -> code = 64
      [] filter = "DRAW"    -> code = 2
      [] filter = "TEXT"    -> code = 4

\* The ids of the cards of pages i.. that the filter takes by that table.
RECURSIVE TakenIdsFrom(_, _)
TakenIdsFrom(i, filter) ==
    IF i > Len(feed) THEN <<>>
    ELSE LET m == SelectSeq(feed[i].cards, LAMBDA c : FilterTakes(filter, c.type))
         IN  [k \in 1..Len(m) |-> m[k].id] \o TakenIdsFrom(i + 1, filter)

\* How many of the ids are of cards of the page at that offset.
CountOnPage(ids, offset) == Cardinality({k \in 1..Len(ids) : ids[k][1] = offset + 1})

\* The caller holds a response.
HoldsResponse == cpc \in {"ready", "finished"}

\* C23: only items whose discriminator the active filter takes are returned,
\* count toward limit and count toward skip_matches: the items returned so
\* far are the first ones the filter takes, no response holds more than
\* limit items or fewer while the feed has more, and the skip count of a
\* cursor is the number of items already returned from its page.
C23_OnlyMatchingItemsCount ==
    HoldsResponse =>
        /\ IsPrefix(collected, TakenIdsFrom(1, resp.filter_type))
        /\ Len(resp.dynamics) <= req.limit
        /\ resp.has_more => Len(resp.dynamics) = req.limit
        /\ resp.next_cursor.kind = "json" =>
               resp.next_cursor.s = CountOnPage(collected, resp.next_cursor.a)

C23_Witness ==
    /\ HoldsResponse
    /\ resp.filter_type = "ALL"
    /\ resp.next_cursor.kind = "json"
    /\ resp.next_cursor.a = 1
    /\ resp.next_cursor.s = 1
    /\ feed[1].cards[1].type = 8
    /\ collected = <<<<1, 2>>, <<2, 1>>>>

-----------------------------------------------------------------------------
(* Claims about the smart selection, checked under SpecSubLang *)

RequestedNorm == _normalize_language_tag(sin.subtitle_lang)
CandidateNorm(i) == _normalize_language_tag(cands[i].track.lan)

\* The request names a language, and not "auto".
SpecificRequest == RequestedNorm # <<>> /\ RequestedNorm # <<"auto">>

\* b is a followed by "-" and more.
IsSubTagOf(a, b) == Len(a) < Len(b) /\ SubSeq(b, 1, Len(a)) = a /\ b[Len(a) + 1] = "-"

Least(S) == CHOOSE i \in S : \A j \in S : i <= j

ExactMatches == {i \in 1..Len(cands) : CandidateNorm(i) = RequestedNorm}
SubTagMatches ==
    {i \in 1..Len(cands) :
        /\ CandidateNorm(i) # <<>>
        /\ IsSubTagOf(RequestedNorm, CandidateNorm(i)) \/ IsSubTagOf(CandidateNorm(i), RequestedNorm)}
RankedEntries ==
    {p \in 1..Len(DEFAULT_SUBTITLE_LANGUAGE_PRIORITY) :
        \E i \in 1..Len(cands) : CandidateNorm(i) = DEFAULT_SUBTITLE_LANGUAGE_PRIORITY[p]}
PriorityMatches ==
    {i \in 1..Len(cands) :
        CandidateNorm(i) = DEFAULT_SUBTITLE_LANGUAGE_PRIORITY[Least(RankedEntries)]}

\* The candidate the claim names.
ClaimedChoice ==
    IF ExactMatches # {} THEN Least(ExactMatches)
    ELSE IF SubTagMatches # {} THEN Least(SubTagMatches)
    ELSE IF RankedEntries # {} THEN Least(PriorityMatches)
    ELSE 1

SmartSelectionMade ==
    /\ spc \in {"text", "done"}
    /\ cands # <<>>
    /\ SpecificRequest

\* C24: in smart mode with a specific requested language and a candidate,
\* the selected track is the first exact match, else the first sub-tag match,
\* else the first candidate of the highest-ranked language of the priority
\* list that is there, else the first candidate; fallback_reason is null
\* exactly when the selection is an exact match, and otherwise names the
\* requested language.
C24_SmartSelectionOrder ==
    SmartSelectionMade =>
        /\ kept = <<ClaimedChoice>>
        /\ sreason = NoReason <=> ExactMatches # {}
        /\ sreason # NoReason => sreason.requested = Strip(sin.subtitle_lang)
        /\ spc = "done" =>
               /\ sout.fallback_reason = sreason
               /\ sout.selected_language = cands[ClaimedChoice].track.lan
               /\ Len(sout.tracks) = 1

\* Two sub-tag matches after a candidate that is none: the first of the two.
C24_Witness ==
    /\ SmartSelectionMade
    /\ spc = "done"
    /\ ExactMatches = {}
    /\ SubTagMatches = {2, 3}
    /\ kept = <<2>>
    /\ sreason.kind = "not exact; matched"

-----------------------------------------------------------------------------
(* Claims about fetch_article_content, checked under SpecArt *)

Methods(log) == [i \in 1..Len(log) |-> log[i].method]

\* C25: in each attempt the upstream calls are get_info, then fetch_content,
\* then markdown; markdown is not called unless fetch_content returned in
\* that attempt; and when fetch_content raises KeyError the call returns the
\* synthesized fallback body and does not raise.
C25_ArticleCallOrder ==
    /\ IsPrefix(Methods(acalls), <<"get_info", "fetch_content", "markdown">>)
    /\ Len(acalls) = 3 => acalls[2].outcome = "ok"
    /\ (Len(acalls) = 2 /\ acalls[2].outcome = "KeyError") =>
           /\ wpc = "done"
           /\ wresult.kind = "value"
           /\ aout.markdown_content.kind = "fallback"
           /\ aout.title = IF ain.is_dict THEN ain.title ELSE "None"

\* A second attempt, after a retried failure of markdown, in which
\* fetch_content raises KeyError.
C25_Witness ==
    /\ attempt = 1
    /\ outcomes = <<ApiException(0 - 412)>>
    /\ Len(acalls) = 2
    /\ acalls[2] = ArtCall("fetch_content", "KeyError")
    /\ aout.markdown_content.kind = "fallback"
    /\ aout.markdown_content.heading = "demo article"

-----------------------------------------------------------------------------
(* Claims about the parsed item, checked under SpecParse *)

\* The entries of the pictures that are mappings, counted one by one.
ValidPictures ==
    IF pin.pictures.is_list
    THEN Cardinality({i \in 1..Len(pin.pictures.entries) : pin.pictures.entries[i] = "dict"})
    ELSE 0

\* C26: for an item with discriminator code 2, the record parse_dynamic_item
\* returns has image_count equal to the number of valid (mapping) image
\* entries, and type DRAW if that number is above 0 and TEXT if it is 0.
C26_DrawOrTextByImageCount ==
    (pout # NotParsed /\ pout.ok /\ pin.type = 2) =>
        /\ pout.value.image_count = ValidPictures
        /\ pout.value.type = IF ValidPictures > 0 THEN "DRAW" ELSE "TEXT"

C26_Witness ==
    /\ pout # NotParsed
    /\ pout.ok
    /\ pin.type = 2
    /\ pin.pictures = Pictures(<<"dict", "dict", "other">>)
    /\ pout.value.image_count = 2
    /\ pout.value.type = "DRAW"

-----------------------------------------------------------------------------
(* Claims about the cursor a response carries, checked under SpecDyn *)

\* The wrapper has handed over the response of the call in progress.
FreshResponse == wpc = "done" /\ wresult.kind = "value"

\* The last item of the response: its page and its place in the page.
LastPage == resp.dynamics[Len(resp.dynamics)].dynamic_id[1]
LastPlace == resp.dynamics[Len(resp.dynamics)].dynamic_id[2]

\* The places of the page whose cards the filter of the response takes.
TakenPlaces(page) ==
    {j \in 1..Len(feed[page].cards) : FilterTakes(resp.filter_type, feed[page].cards[j].type)}

\* The limit was reached at an item after which the same page holds another
\* item that the filter takes.
LimitReachedMidPage ==
    /\ FreshResponse
    /\ Len(resp.dynamics) = req.limit
    /\ \E j \in TakenPlaces(LastPage) : j > LastPlace

\* C27: when the limit is reached in the middle of a page and a matching item
\* remains in that page, next_cursor encodes the cursor of the same page with
\* skip_matches equal to the number of matching items of the page up to the
\* last one returned, those an earlier call returned included, and has_more
\* is true.
C27_MidPageCursorKeepsPage ==
    LimitReachedMidPage =>
        /\ resp.has_more
        /\ resp.next_cursor.kind = "json"
        /\ resp.next_cursor.a = LastPage - 1
        /\ resp.next_cursor.s = Cardinality({j \in TakenPlaces(LastPage) : j <= LastPlace})
        /\ resp.next_cursor.u = req.user_id
        /\ resp.next_cursor.t = resp.filter_type

\* A call that came with a skip of 1 returns the second of three matching
\* items of the page.
C27_Witness ==
    /\ LimitReachedMidPage
    /\ HasCursor(req.cursor)
    /\ req.cursor.s = 1
    /\ req.cursor.a = resp.next_cursor.a
    /\ resp.next_cursor.s = 2

\* Does the upstream report a page after this one: has_more with a
\* next_offset that is neither missing nor zero?
ReportsFurtherPage(page) ==
    feed[page].has_more /\ feed[page].next_offset # None /\ feed[page].next_offset # 0

\* The limit was reached at the last matching item of its page.
LimitReachedAtPageEnd ==
    /\ FreshResponse
    /\ Len(resp.dynamics) = req.limit
    /\ \A j \in TakenPlaces(LastPage) : j <= LastPlace

\* The items of the response that come from a page entered by `continue`
\* start at the first matching item of that page.
LaterPagesFromTheirStart ==
    \A i \in 1..Len(resp.dynamics) :
        LET id == resp.dynamics[i].dynamic_id
        IN  id[1] - 1 # fetched[1] =>
                \A j \in TakenPlaces(id[1]) :
                    j < id[2] => \E k \in 1..Len(resp.dynamics) :
                                     resp.dynamics[k].dynamic_id = <<id[1], j>>

\* C28: when the limit is reached with no matching item left in the page and
\* the upstream reports a further page, next_cursor encodes the upstream's
\* next-page token with skip_matches 0 and has_more is true; and a page that
\* the scan moves on to inside the call is scanned with an in-page skip of 0.
C28_NextPageCursorSkipZero ==
    /\ (LimitReachedAtPageEnd /\ ReportsFurtherPage(LastPage)) =>
           /\ resp.has_more
           /\ resp.next_cursor.kind = "json"
           /\ resp.next_cursor.a = feed[LastPage].next_offset
           /\ resp.next_cursor.s = 0
           /\ resp.next_cursor.u = req.user_id
           /\ resp.next_cursor.t = resp.filter_type
    /\ (dpc = "scan" /\ fetched # <<>>) => loc.in_page_skip = 0
    /\ (FreshResponse /\ fetched # <<>>) => LaterPagesFromTheirStart

\* A call that came with a skip moves on to the next page, fills the limit
\* with the last matching item there, and the upstream reports a further page.
C28_Witness ==
    /\ LimitReachedAtPageEnd
    /\ ReportsFurtherPage(LastPage)
    /\ HasCursor(req.cursor)
    /\ req.cursor.s >= 1
    /\ Len(fetched) >= 2
    /\ resp.dynamics[1].dynamic_id[1] # LastPage
    /\ resp.next_cursor.s = 0

-----------------------------------------------------------------------------
(* Claims about the end of the scan, checked under SpecDynLoop *)

\* The page fetched last in the call.
LastFetched == fetched[Len(fetched)] + 1

\* The skip the call came with.
RequestSkip == IF HasCursor(req.cursor) THEN req.cursor.s ELSE 0

\* The ids of the cards of the page that the filter takes, in the order of the
\* page, without the first skip of them.
PageTakenIds(page, skip) ==
    LET places == TakenPlaces(page)
        nth(i) == CHOOSE j \in places : Cardinality({x \in places : x < j}) = i - 1
    IN  [i \in 1..Max(Cardinality(places) - skip, 0) |-> <<page, nth(i + skip)>>]

\* The matching ids of the pages fetched from the i-th on.
RECURSIVE TakenIdsOfFetched(_)
TakenIdsOfFetched(i) ==
    IF i > Len(fetched) THEN <<>>
    ELSE PageTakenIds(fetched[i] + 1, IF i = 1 THEN RequestSkip ELSE 0)
             \o TakenIdsOfFetched(i + 1)

\* What the pages fetched hold for the call, up to the limit.
AccumulatedIds ==
    SubSeq(TakenIdsOfFetched(1), 1, Min(req.limit, Len(TakenIdsOfFetched(1))))

ReturnedIds == [i \in 1..Len(resp.dynamics) |-> resp.dynamics[i].dynamic_id]

\* The last page fetched holds no matching item beyond those returned.
NoFurtherMatch == Len(resp.dynamics) < req.limit \/ LimitReachedAtPageEnd

NoNextPage == resp.next_cursor = NoCursor /\ ~resp.has_more

\* C29: the response has next_cursor null and has_more false when the page
\* fetched last is empty, and when that page holds no further matching item
\* and the upstream reports no further page (has_more false, or no
\* next_offset); the items accumulated before are returned all the same.
C29_EndOfFeedReturnsNullCursor ==
    (FreshResponse /\ fetched # <<>>) =>
        /\ feed[LastFetched].cards = <<>> => NoNextPage
        /\ (NoFurtherMatch /\ ~ReportsFurtherPage(LastFetched)) => NoNextPage
        /\ ReturnedIds = AccumulatedIds

\* Items of a first page are returned although the second page fetched is
\* empty and reports a further page.
C29_Witness ==
    /\ FreshResponse
    /\ Len(fetched) = 2
    /\ feed[LastFetched].cards = <<>>
    /\ feed[LastFetched].has_more
    /\ feed[LastFetched].next_offset \in LoopOffsets
    /\ resp.dynamics # <<>>
    /\ NoNextPage

\* The cursors fetched so far in the call.
FetchedCursors == {fetched[i] : i \in 1..Len(fetched)}

\* The upstream's next-page token of the page fetched last is the cursor of
\* that page or of a page fetched before it in the call.
TokenPointsBack ==
    ReportsFurtherPage(LastFetched) /\ feed[LastFetched].next_offset \in FetchedCursors

\* C30: when the upstream's next-page token equals the current page cursor or
\* a page cursor already fetched in the call, the call returns has_more false
\* with next_cursor null; no page cursor is fetched twice in one call; and no
\* response hands the caller a cursor that points back, with skip 0, at a page
\* the call has consumed.
C30_RepeatedTokenAborts ==
    /\ \A i, j \in 1..Len(fetched) : fetched[i] = fetched[j] => i = j
    /\ (FreshResponse /\ fetched # <<>>) =>
           /\ (TokenPointsBack /\ NoFurtherMatch) => NoNextPage
           /\ (resp.next_cursor # NoCursor /\ resp.next_cursor.s = 0) =>
                  resp.next_cursor.a \notin FetchedCursors

\* C31: a response has has_more true only if it holds exactly limit items;
\* every response has total_fetched equal to the number of its items, which
\* is at most limit; and a response with fewer than limit items has has_more
\* false and next_cursor null.
C31_CursorOnlyWithFullResponse ==
    FreshResponse =>
        /\ resp.total_fetched = Len(resp.dynamics)
        /\ Len(resp.dynamics) <= req.limit
        /\ resp.has_more => Len(resp.dynamics) = req.limit
        /\ Len(resp.dynamics) < req.limit => NoNextPage

\* A call over two pages that fills a limit of two or more and gets a cursor.
C31_Witness ==
    /\ FreshResponse
    /\ Len(fetched) = 2
    /\ req.limit >= 2
    /\ Len(resp.dynamics) = req.limit
    /\ resp.total_fetched = req.limit
    /\ resp.has_more

-----------------------------------------------------------------------------
(* Claims about the delays of the wrapper, checked under SpecRetryDelay *)

\* The jitter of a retry, in tenths of a second: between 0.5 and 1.5.
JitterBounds == 5..15

\* The sleep before retry number n: sleeps starts with the sleep before the
\* first attempt.
RetrySleep(n) == sleeps[n + 1]

\* The retries that have slept so far.
RetriesSlept == 1..(Len(sleeps) - 1)

\* C32: the sleep before retry number n (n >= 1) is
\* min(base_delay * 2^(n-1) + jitter, max_delay) for a jitter between bounds
\* above zero; it never exceeds max_delay; and while it is below max_delay,
\* its part without jitter is twice that of the retry before.
C32_BackoffDoublesUnderCap ==
    \A n \in RetriesSlept :
        /\ \E j \in JitterBounds :
               RetrySleep(n) = Min(wcfg.base_delay * (2 ^ (n - 1)) + j, wcfg.max_delay)
        /\ RetrySleep(n) <= wcfg.max_delay
        /\ (n >= 2 /\ RetrySleep(n) < wcfg.max_delay) =>
               \E j, k \in JitterBounds : RetrySleep(n) - j = 2 * (RetrySleep(n - 1) - k)

\* Three retries have slept: the second below the cap, the third at it.
C32_Witness ==
    /\ Len(sleeps) = 4
    /\ RetrySleep(1) < RetrySleep(2)
    /\ RetrySleep(2) < wcfg.max_delay
    /\ RetrySleep(3) = wcfg.max_delay

-----------------------------------------------------------------------------
(* Claims about every way out of the page loop, checked under SpecDynExits *)

\* The ways out of the page loop.
LoopExits ==
    { "max_pages", "repeat", "empty_more", "empty_end", "limit_same_page",
      "limit_next_page", "limit_end", "non_advancing", "end" }

\* C33: in every payload of fetch_user_dynamics has_more is true if and only
\* if next_cursor is not null, whichever way the page loop was left.
C33_HasMoreIffCursor ==
    FreshResponse =>
        /\ resp.has_more <=> resp.next_cursor # NoCursor
        /\ exits \subseteq LoopExits

\* The call left the loop at the page bound, after MAX_SCAN_PAGES pages that
\* each announced a further one.
C33_Witness ==
    /\ FreshResponse
    /\ exits = {"max_pages"}
    /\ Len(fetched) = MAX_SCAN_PAGES
    /\ ReportsFurtherPage(LastFetched)
    /\ ~resp.has_more
    /\ resp.next_cursor = NoCursor

\* C34: a call that was given a cursor (page P, skip s) and returns a
\* next_cursor that is not null returns one that encodes page P with a skip
\* greater than s, or a page other than P; whatever the upstream does, it is
\* not the cursor the call was given.
C34_ReturnedCursorAdvances ==
    (FreshResponse /\ HasCursor(req.cursor) /\ resp.next_cursor # NoCursor) =>
        /\ \/ resp.next_cursor.a = req.cursor.a /\ resp.next_cursor.s > req.cursor.s
           \/ resp.next_cursor.a # req.cursor.a
        /\ resp.next_cursor # req.cursor

-----------------------------------------------------------------------------
(* Termination, checked under SpecDynLive *)

\* C35: over an upstream without a cycle and for any limit above zero, the
\* calls that follow each next_cursor come to a response with has_more
\* false, and no call fetches more than MAX_SCAN_PAGES pages.
C35_FollowingCursorsTerminates ==
    /\ <>(cpc = "finished" /\ FreshResponse /\ ~resp.has_more)
    /\ [](Len(fetched) <= MAX_SCAN_PAGES)

\* The caller has come to the end after following a cursor into the middle
\* of a page.
C35_Witness ==
    /\ cpc = "finished"
    /\ ~resp.has_more
    /\ HasCursor(req.cursor)
    /\ req.cursor.s >= 1
    /\ Len(collected) >= 2

-----------------------------------------------------------------------------
(* Retried attempts, checked under SpecDynFail *)

\* The page loop run to its end without a failure, from the locals l.
RECURSIVE RunLoop(_, _)
RunLoop(r, l) ==
    LET o == LoopBody(r, l) IN IF o.done THEN o.loc ELSE RunLoop(r, o.loc)

\* The response of a call of the request against the upstream in which no
\* page fetch fails.
FailureFreeResponse ==
    DynamicListResponse(RunLoop(req, [DynEnter(req).loc EXCEPT !.processed = <<>>]))

\* C36: when page fetches of fetch_user_dynamics fail with an error that
\* with_retry retries, the attempt that succeeds starts again from the
\* cursor of the call with an empty accumulator and new page counters: its
\* items and its next_cursor are those of a call in which nothing failed.
C36_RetriedAttemptStartsAfresh ==
    /\ FreshResponse => resp = FailureFreeResponse
    /\ (dpc = "scan" /\ fetched = <<>>) =>
           /\ loc.processed = <<>>
           /\ loc.scanned_pages = 0
           /\ loc.seen_offsets = {}

\* The third attempt succeeds over two pages and returns items of both.
C36_Witness ==
    /\ FreshResponse
    /\ attempt = 2
    /\ Len(outcomes) = 2
    /\ Len(fetched) = 2
    /\ Len(resp.dynamics) >= 2
    /\ resp.dynamics[1].dynamic_id[1] # LastPage

-----------------------------------------------------------------------------
(* The filters that name one type, checked under SpecDynNamed *)

\* The name the request asks for, in upper case and without blanks around.
RequestedName ==
    IF req.dynamic_type = PaddedDraw THEN "DRAW"
    ELSE CHOOSE t \in NamedFilters : TypeChars[t] = req.dynamic_type

-----------------------------------------------------------------------------
(* The cached lookups, checked under SpecCache *)

\* A request whose lookup found a finished entry made no upstream call of its
\* own: its future is a task another request created.
ServedFromDoneEntry(r) ==
    /\ reqs[r].found = "value"
    /\ ctasks[reqs[r].fut].creator # r
    /\ ctasks[reqs[r].fut].state = "value"

C39_StatisticMatchesLookup ==
    \A r \in Requests :
        reqs[r].recorded # "none" =>
            (reqs[r].recorded = "hit" <=> reqs[r].found \in {"value", "pending"})

-----------------------------------------------------------------------------
(* The shared client under concurrent callers, checked under SpecHttpConc *)

\* C40: when a close_shared_http_client call is over, every client that
\* get_shared_http_client returned before that is closed; and
\* get_shared_http_client never returns a closed client.
C40_CompletedCloseLeavesNoOpenClient ==
    /\ \A i \in 1..Len(hist) :
           hist[i].op = "close_end" =>
               \A j \in 1..(i - 1) : hist[j].op = "get" => is_closed[hist[j].client]
    /\ \A i \in 1..Len(hist) : hist[i].op = "get" => hist[i].open

====
